---- MODULE Spec2Model ----
(***************************************************************************)
(* Ingest pipeline of the Teamwork/Missive connector: the durable queue    *)
(* (queue_items table and its server-side functions), the worker           *)
(* dispatcher, the webhook receiver and the remote task tracker.           *)
(*                                                                         *)
(* Time is kept relative to "now", in minutes: a row's `due` is            *)
(* next_retry_at - now and its `age` is now - claimed_at.                  *)
(***************************************************************************)
EXTENDS Integers, Sequences, FiniteSets, TLC

\* ------------------------------------------------------------------ bounds
MaxItems == 2        \* rows the queue table may hold
MaxVersion == 1      \* times the remote record changes
TickMinutes == 31    \* minutes that pass in one Tick
MaxOverdue == 0      \* minutes of overdue time after which next_retry_at is no longer told apart
MaxClock == 2        \* readings the reconciler's wall clock goes through
MaxPages == 2        \* API responses one backfill poll may consume
PageSize == 1        \* records in a full page of an API response
OverlapTicks == 1    \* BACKFILL_OVERLAP_SECONDS, in clock ticks
MaxHandles == 2      \* PostgresDatabase objects the DatabaseManager creates
MaxConns == 3        \* connections opened over all handles
MaxConnectFails == 6 \* failed connection attempts of one _connect that are counted

\* --------------------------------------------------------- program constants
MAX_QUEUE_ATTEMPTS == 3
stuck_threshold_minutes == 30
DispatchBatch == 10
BackoffBase == 15
BackoffCap == 30

Workers == {"w1", "w2"}
NoWorker == "none"
Sources == {"teamwork", "missive"}
AnySource == "any"

\* Remote records: "42" is an ordinary task, the normalizer raises on "BAD" at
\* every attempt, and every upsert that contains "FK" raises a data error.
ExtIds == {"42", "BAD", "FK"}
NormalizerPoison == {"BAD"}
UpsertPoison == {"FK"}

NoTask == -1
NoRow == -1
NoError == "none"

VARIABLES
    queue_items,   \* the queue_items table: a sequence of rows, the index is the id
    rowlocks,      \* row locks of dequeue_items statements in flight: worker -> ids
    dbUp,          \* the database accepts connections
    remote,        \* current version of each remote record
    tasks,         \* teamwork.tasks: stored version of each record, NoRow if absent
    atDequeue,     \* remote version at the latest dequeue of an item of each record
    pc,            \* position of each worker in WorkerDispatcher.run
    todo,          \* items of the batch not yet given to the handler
    pairs,         \* item_task_pairs of the batch
    conn,          \* webhook process: server-side state of its connection
    hook,          \* webhook process: the request in progress
    webhook_secret,\* webhook process: the configured secret of each source
    recent,        \* webhook process: a connection attempt was made less than
                   \* _min_retry_interval ago
    checkpoint,    \* the checkpoints table: last_event_time of each source
    clock,         \* the wall clock of the reconciler's host
    poll,          \* the latest backfill poll: its source, whether a page of
                   \* it failed, and how many records it fetched
    running,       \* WorkerDispatcher.running of each worker
    session,       \* a PostgresConnection and the call in progress on it
    mgr,           \* the DatabaseManager, its database handles and the threads
                   \* that go through it
    exc,           \* an exception raised by a database call, and the verdict of each classifier on it
    periodic,      \* the backfill timers of the app process and the one-shot run of the startup process
    dispatch          \* one pass of the dispatcher over a dequeued batch, the remote task and its local row

vars == <<queue_items, rowlocks, dbUp, remote, tasks, atDequeue, pc, todo, pairs, conn, hook,
         webhook_secret, recent, checkpoint, clock, poll, running, session, mgr, exc, periodic, dispatch>>

qvars == <<queue_items, rowlocks>>
bfvars == <<checkpoint, clock, poll>>
envvars == <<dbUp, remote, bfvars, running>>
wvars == <<pc, todo, pairs>>
hookvars == <<conn, hook, webhook_secret, recent, session, mgr, exc, periodic, dispatch>>

\* settings.TEAMWORK_WEBHOOK_SECRET / MISSIVE_WEBHOOK_SECRET: "" when unset.
NoSecret == ""
Secrets == {"s"}

\* The signature header when it is absent or empty.
NoSig == <<>>

\* No checkpoint row for the source yet; no poll made yet.
NoCheckpoint == -1
NoPoll == [source |-> "", failed |-> FALSE, fetched |-> 0]

\* ------------------------------------------------------------- small helpers
Min(a, b) == IF a < b THEN a ELSE b
Max(a, b) == IF a > b THEN a ELSE b

RECURSIVE Pow2(_)
Pow2(n) == IF n = 0 THEN 1 ELSE 2 * Pow2(n - 1)

Ids(q) == DOMAIN q

SeqIds(s) == {s[k] : k \in DOMAIN s}
PairIds(ps) == {ps[k].id : k \in DOMAIN ps}

\* ---------------------------------------------------------------- the queue
\* completed_at of a row never completed.
NoTime == -1

\* Row inserted by PostgresQueue.enqueue: status pending, retry_count 0,
\* next_retry_at = now.
NewRow(src, ext) ==
    [source |-> src, external_id |-> ext, status |-> "pending", retry_count |-> 0,
     due |-> 0, claimed_by |-> NoWorker, age |-> 0, last_error |-> NoError,
     completed_at |-> NoTime]

enqueue(q, src, ext) == Append(q, NewRow(src, ext))

\* dequeue_items: rows that are pending and due, match the source filter and are
\* not locked by another statement (skip locked).
Eligible(q, locked, src) ==
    {i \in Ids(q) : /\ q[i].status = "pending"
                    /\ q[i].due <= 0
                    /\ (src = AnySource \/ q[i].source = src)
                    /\ i \notin locked}

\* ORDER BY next_retry_at ASC, id ASC
Before(q, i, j) == q[i].due < q[j].due \/ (q[i].due = q[j].due /\ i < j)

\* FOR UPDATE without SKIP LOCKED ever leaving a row out.
SelectRows_IgnoreLocks(q, locked, max_items, src) ==
    LET E == Eligible(q, {}, src)
    IN {i \in E : Cardinality({j \in E : Before(q, j, i)}) < max_items}

\* ... LIMIT max_items FOR UPDATE SKIP LOCKED
SelectRows(q, locked, max_items, src) ==
    LET E == Eligible(q, locked, src)
    IN {i \in E : Cardinality({j \in E : Before(q, j, i)}) < max_items}

\* UPDATE ... SET status = 'processing', claimed_by = worker_id, claimed_at = now()
ClaimRows(q, ids, w) ==
    [i \in Ids(q) |->
        IF i \in ids
        THEN [q[i] EXCEPT !.status = "processing", !.claimed_by = w, !.age = 0]
        ELSE q[i]]

\* The rows of a result set, in the statement's order.
RECURSIVE RowOrder(_, _)
RowOrder(q, ids) ==
    IF ids = {} THEN <<>>
    ELSE LET first == CHOOSE i \in ids : \A j \in ids \ {i} : Before(q, i, j)
         IN <<first>> \o RowOrder(q, ids \ {first})

\* A second call that reopens the row.
mark_completed_Reopens(q, id) ==
    [q EXCEPT ![id].status = IF @ = "completed" THEN "pending" ELSE "completed",
              ![id].completed_at = clock, ![id].age = 0, ![id].due = 0]

\* mark_completed(id, processing_time_ms): whatever the row's status is;
\* completed_at = now(), the clock's reading.
mark_completed(q, id) ==
    [q EXCEPT ![id].status = "completed", ![id].completed_at = clock,
              ![id].age = 0, ![id].due = 0]

\* A backoff of no time at all.
backoff_None(n, jitter) == 0

\* backoff(n) = base * 2^n + U(0, base), capped
backoff(n, jitter) == Min(BackoffBase * Pow2(n) + jitter, BackoffCap)

\* mark_failed(id, error, retry): every failure is counted and recorded; with
\* retry budget left the row is pending again after the backoff, otherwise it
\* is dead_letter.
mark_failed(q, id, err, retry, jitter) ==
    LET n == q[id].retry_count + 1
    IN IF retry /\ n < MAX_QUEUE_ATTEMPTS
       THEN [q EXCEPT ![id].status = "pending", ![id].retry_count = n,
                      ![id].due = backoff(n, jitter), ![id].last_error = err,
                      ![id].age = 0]
       ELSE [q EXCEPT ![id].status = "dead_letter", ![id].retry_count = n,
                      ![id].last_error = err, ![id].age = 0, ![id].due = 0]

\* mark_item_failed that does not pass the retry flag on.
mark_item_failed_NoRetry(q, id, err, retry, jitter) == mark_failed(q, id, err, FALSE, jitter)

\* reset_stuck_items(threshold): processing rows claimed longer ago than the
\* threshold are pending again; nothing else of the row changes.
Stuck(q, threshold) ==
    {i \in Ids(q) : q[i].status = "processing" /\ q[i].age > threshold}

\* A sweep that counts as a failed attempt.
reset_stuck_items_Counted(q, threshold) ==
    [i \in Ids(q) |->
        IF i \in Stuck(q, threshold)
        THEN [q[i] EXCEPT !.status = "pending", !.age = 0, !.retry_count = @ + 1]
        ELSE q[i]]

reset_stuck_items(q, threshold) ==
    [i \in Ids(q) |->
        IF i \in Stuck(q, threshold)
        THEN [q[i] EXCEPT !.status = "pending", !.age = 0]
        ELSE q[i]]

\* PostgresQueue.mark_item_completed / mark_item_failed: the item carries the
\* _db_id set by dequeue_batch, the call is passed on to the database function.
mark_item_completed(q, id) == mark_completed(q, id)

mark_item_failed(q, id, err, retry, jitter) == mark_failed(q, id, err, retry, jitter)

\* The passage of TickMinutes minutes.
TickRow(r) ==
    [r EXCEPT
        !.due = IF r.status \in {"pending", "processing"}
                THEN Max(r.due - TickMinutes, 0 - MaxOverdue) ELSE r.due,
        !.age = IF r.status = "processing" /\ r.age <= stuck_threshold_minutes
                THEN r.age + TickMinutes ELSE r.age]

Jitters == {0, BackoffBase}

\* ------------------------------------------------------------- domain table
\* upsert_tasks_batch: INSERT ... ON CONFLICT (id) DO UPDATE, row after row, so
\* the last record of an id in the batch is the one stored.
RECURSIVE upsert_tasks_batch(_, _)
upsert_tasks_batch(t, ps) ==
    IF ps = <<>> THEN t
    ELSE upsert_tasks_batch([t EXCEPT ![Head(ps).ext] = Head(ps).task], Tail(ps))

\* The statement raises a data error if one of the records cannot be stored;
\* the transaction is then rolled back and nothing of the batch is stored.
UpsertRaises(ps) == \E k \in DOMAIN ps : ps[k].ext \in UpsertPoison

\* tasks = [task for _, task in item_task_pairs if task]
TasksOf(ps) == SelectSeq(ps, LAMBDA p : p.task # NoTask)

\* ------------------------------------------------------------- initial state
\* The webhook receiver between two requests.
IdleHook ==
    [pc |-> "idle", kind |-> "", source |-> "", body |-> "", sig |-> NoSig, ext |-> "",
     attempt |-> 0, before |-> 0, status |-> 0, db |-> FALSE, ret |-> "", up |-> FALSE,
     down |-> FALSE, avail |-> FALSE, pending |-> 0, details |-> {}, failed |-> FALSE]

\* Request threads of the Flask process.
Threads == {"t1", "t2"}
NoThread == "free"

\* DatabaseManager.__init__: no handle, no queue, the lock free. A handle is a
\* PostgresDatabase object: cur is its _conn (0 for None), valid its
\* _connection_valid; dead holds the connections closed or broken.
NewManager ==
    [lock |-> NoThread, db |-> 0, queue |-> 0,
     cur |-> [h \in 1 .. MaxHandles |-> 0], valid |-> [h \in 1 .. MaxHandles |-> FALSE],
     made |-> 0, conns |-> 0, dead |-> {},
     tpc |-> [t \in Threads |-> "idle"], got |-> [t \in Threads |-> 0],
     using |-> [t \in Threads |-> 0]]

\* A PostgresConnection between two calls.
IdleSession ==
    [pc |-> "idle", fn |-> "", ret |-> "", attempt |-> 0, delay |-> 0, cdelay |-> 0,
     fails |-> 0, valid |-> FALSE, runs |-> 0, last |-> "none", rolled |-> FALSE,
     wait |-> 0, result |-> ""]

\* ---- exceptions -------------------------------------------------------------
\* str(exc).lower() as a sequence of words; an indicator is found in a message
\* when its words occur in it one after the other.
MaxWords == 3
Words == {"connection", "server", "closed", "unexpectedly", "database", "ssl", "timeout", "syntax"}
ExcTypes == {"OperationalError", "InterfaceError", "Exception"}
NoVerdicts == [session |-> FALSE, queue |-> FALSE, dispatcher |-> FALSE]
NoExc == [type |-> "", msg |-> <<>>, classified |-> FALSE, verdict |-> NoVerdicts]

\* ---- periodic backfill ------------------------------------------------------
MaxTimers == 3
Timers == 1 .. MaxTimers
NoTimer == 0
NewPeriodic ==
    [stop_event |-> FALSE, _backfill_timer |-> NoTimer,
     timers |-> [i \in Timers |-> "unused"], app |-> "main", startup |-> "main"]

\* ---- one pass of _process_batch ---------------------------------------------
MaxBatch == 2
MaxTag == 2
TagIds == 1 .. MaxTag
BatchSlots == 1 .. MaxBatch
\* the items of a batch are about one task; a teamwork item is an update or a
\* deletion event, the other sources have one kind of item
ItemKinds ==
    {[source |-> "teamwork", event |-> "task.updated"],
     [source |-> "teamwork", event |-> "task.deleted"],
     [source |-> "missive", event |-> ""],
     [source |-> "craft", event |-> ""],
     [source |-> "other", event |-> ""]}
NewBatch ==
    [items |-> <<>>, phase |-> "idle", at |-> 0, pairs |-> <<>>,
     completed |-> [i \in BatchSlots |-> 0], failed |-> [i \in BatchSlots |-> 0],
     remote |-> [exists |-> TRUE, tags |-> {}],
     local |-> [stored |-> FALSE, deleted |-> FALSE, tags |-> {}]]

Init ==
    /\ queue_items = <<>>
    /\ rowlocks = [w \in Workers |-> {}]
    /\ dbUp = TRUE
    /\ remote = [e \in ExtIds |-> 0]
    /\ tasks = [e \in ExtIds |-> NoRow]
    /\ atDequeue = [e \in ExtIds |-> 0]
    /\ pc = [w \in Workers |-> "loop"]
    /\ todo = [w \in Workers |-> <<>>]
    /\ pairs = [w \in Workers |-> <<>>]
    /\ conn = "none"
    /\ hook = IdleHook
    /\ webhook_secret = [s \in Sources |-> NoSecret]
    /\ recent = FALSE
    /\ session = IdleSession
    /\ mgr = NewManager
    /\ exc = NoExc
    /\ periodic = NewPeriodic
    /\ dispatch = NewBatch
    /\ checkpoint = [s \in Sources |-> NoCheckpoint]
    /\ clock = 0
    /\ poll = NoPoll
    /\ running = [w \in Workers |-> TRUE]

\* ------------------------------------------------------------- producers
\* A webhook handler or a backfill run enqueues a task id successfully.
Enqueue(ext) ==
    /\ dbUp
    /\ Len(queue_items) < MaxItems
    /\ queue_items' = enqueue(queue_items, "teamwork", ext)
    /\ UNCHANGED <<rowlocks, envvars, tasks, atDequeue, wvars, hookvars>>

\* ------------------------------------------------------------- dispatcher
\* Remote version seen at the latest dequeue of each record.
NoteDequeue(ids) ==
    [e \in ExtIds |->
        IF \E i \in ids : queue_items[i].external_id = e THEN remote[e] ELSE atDequeue[e]]

\* dequeue_batch that does not pass the worker id on.
dequeue_batch_NoWorkerId(q, w, max_items, src) ==
    ClaimRows(q, SelectRows(q, {}, max_items, src), NoWorker)

\* PostgresQueue.dequeue_batch(max_items, source): SELECT * FROM
\* dequeue_items(self.worker_id, max_items, source); the rows come back as
\* QueueItems that carry the row id.
dequeue_batch(q, w, max_items, src) ==
    ClaimRows(q, SelectRows(q, {}, max_items, src), w)

\* WorkerDispatcher.run: _ensure_database, then dequeue_batch(max_items=10); on
\* an empty result the worker sleeps and polls again.
RunDequeue(w) ==
    /\ pc[w] = "loop"
    /\ dbUp
    /\ LET ids == SelectRows(queue_items, {}, DispatchBatch, AnySource)
       IN IF ids = {}
          THEN /\ pc' = [pc EXCEPT ![w] = "sleep"]
               /\ UNCHANGED <<queue_items, todo, atDequeue>>
          ELSE /\ queue_items' = dequeue_batch(queue_items, w, DispatchBatch, AnySource)
               /\ todo' = [todo EXCEPT ![w] = RowOrder(queue_items, ids)]
               /\ atDequeue' = NoteDequeue(ids)
               /\ pc' = [pc EXCEPT ![w] = "normalize"]
    /\ UNCHANGED <<rowlocks, envvars, tasks, pairs, hookvars>>

\* time.sleep(0.5)
Sleep(w) ==
    /\ pc[w] = "sleep"
    /\ pc' = [pc EXCEPT ![w] = "loop"]
    /\ UNCHANGED <<qvars, envvars, tasks, atDequeue, todo, pairs, hookvars>>

\* Where _process_batch continues after the handler was given an item: the
\* next item, or the batch upsert, or the acks when no handler returned a task,
\* or the next dequeue when every item failed.
AfterItem(w, ps) ==
    /\ todo' = [todo EXCEPT ![w] = Tail(@)]
    /\ pairs' = [pairs EXCEPT ![w] = ps]
    /\ pc' = [pc EXCEPT ![w] =
                IF Tail(todo[w]) # <<>> THEN "normalize"
                ELSE IF ps = <<>> THEN "loop"
                ELSE IF TasksOf(ps) = <<>> THEN "ack"
                ELSE "upsert"]

\* A dispatcher that marks a failed item with retry=False.
DispatcherRetryOff == FALSE

\* The retry flag the dispatcher passes to mark_item_failed.
DispatcherRetry == TRUE

\* _process_batch, the handler loop: the handler raises and the item is marked
\* failed.
NormalizeRaises(w) ==
    /\ pc[w] = "normalize"
    /\ dbUp
    /\ LET id == Head(todo[w])
       IN /\ queue_items[id].external_id \in NormalizerPoison
          /\ \E j \in Jitters :
                queue_items' = mark_item_failed(queue_items, id, "normalizer", DispatcherRetry, j)
          /\ AfterItem(w, pairs[w])
    /\ UNCHANGED <<rowlocks, envvars, tasks, atDequeue, hookvars>>

\* TeamworkEventHandler.process_event: get_task_by_id returns None when the API
\* request fails, and process_event then returns None.
NormalizeNone(w) ==
    /\ pc[w] = "normalize"
    /\ LET id == Head(todo[w])
           ext == queue_items[id].external_id
       IN /\ ext \notin NormalizerPoison
          /\ AfterItem(w, Append(pairs[w], [id |-> id, ext |-> ext, task |-> NoTask]))
    /\ UNCHANGED <<qvars, envvars, tasks, atDequeue, hookvars>>

\* process_event fetches the current remote record and returns it as a Task.
NormalizeTask(w) ==
    /\ pc[w] = "normalize"
    /\ dbUp
    /\ LET id == Head(todo[w])
           ext == queue_items[id].external_id
       IN /\ ext \notin NormalizerPoison
          /\ AfterItem(w, Append(pairs[w], [id |-> id, ext |-> ext, task |-> remote[ext]]))
    /\ UNCHANGED <<qvars, envvars, tasks, atDequeue, hookvars>>

\* A batch upsert that goes on to the acks without having stored anything.
UpsertBatch_NotStored(w) ==
    /\ pc[w] = "upsert"
    /\ dbUp
    /\ ~UpsertRaises(TasksOf(pairs[w]))
    /\ pc' = [pc EXCEPT ![w] = "ack"]
    /\ UNCHANGED <<qvars, envvars, tasks, atDequeue, todo, pairs, hookvars>>

\* self.db.upsert_tasks_batch(tasks) succeeds.
UpsertBatch(w) ==
    /\ pc[w] = "upsert"
    /\ dbUp
    /\ ~UpsertRaises(TasksOf(pairs[w]))
    /\ tasks' = upsert_tasks_batch(tasks, TasksOf(pairs[w]))
    /\ pc' = [pc EXCEPT ![w] = "ack"]
    /\ UNCHANGED <<qvars, envvars, atDequeue, todo, pairs, hookvars>>

\* The batch upsert raises: fall back to _process_teamwork_items_individually.
UpsertBatchRaises(w) ==
    /\ pc[w] = "upsert"
    /\ dbUp
    /\ UpsertRaises(TasksOf(pairs[w]))
    /\ pc' = [pc EXCEPT ![w] = "individual"]
    /\ UNCHANGED <<qvars, envvars, tasks, atDequeue, todo, pairs, hookvars>>

AfterPair(w) ==
    /\ pairs' = [pairs EXCEPT ![w] = Tail(@)]
    /\ pc' = [pc EXCEPT ![w] = IF Tail(pairs[w]) = <<>> THEN "loop" ELSE pc[w]]

\* for item, _ in item_task_pairs: self.queue.mark_item_completed(item)
Ack(w) ==
    /\ pc[w] = "ack"
    /\ dbUp
    /\ queue_items' = mark_item_completed(queue_items, Head(pairs[w]).id)
    /\ AfterPair(w)
    /\ UNCHANGED <<rowlocks, envvars, tasks, atDequeue, todo, hookvars>>

\* A fallback that gives up on the whole batch: every pair is marked failed.
Individual_FailsAll(w) ==
    /\ pc[w] = "individual"
    /\ dbUp
    /\ \E j \in Jitters :
          queue_items' = mark_item_failed(queue_items, Head(pairs[w]).id, "upsert",
                                          DispatcherRetry, j)
    /\ tasks' = tasks
    /\ AfterPair(w)
    /\ UNCHANGED <<rowlocks, envvars, atDequeue, todo, hookvars>>

\* _process_teamwork_items_individually, one pair.
Individual(w) ==
    /\ pc[w] = "individual"
    /\ dbUp
    /\ LET p == Head(pairs[w])
       IN IF p.task = NoTask
          THEN /\ queue_items' = mark_item_completed(queue_items, p.id)
               /\ tasks' = tasks
          ELSE IF UpsertRaises(<<p>>)
          THEN /\ \E j \in Jitters :
                     queue_items' = mark_item_failed(queue_items, p.id, "upsert", DispatcherRetry, j)
               /\ tasks' = tasks
          ELSE /\ tasks' = upsert_tasks_batch(tasks, <<p>>)
               /\ queue_items' = mark_item_completed(queue_items, p.id)
    /\ AfterPair(w)
    /\ UNCHANGED <<rowlocks, envvars, atDequeue, todo, hookvars>>

\* The worker process is killed while it works on a batch, and started again.
Crash(w) ==
    /\ pc[w] \in {"normalize", "upsert", "ack", "individual"}
    /\ pc' = [pc EXCEPT ![w] = "loop"]
    /\ todo' = [todo EXCEPT ![w] = <<>>]
    /\ pairs' = [pairs EXCEPT ![w] = <<>>]
    /\ UNCHANGED <<qvars, envvars, tasks, atDequeue, hookvars>>

\* ------------------------------------------------------------- environment
\* PostgresQueue.reset_stuck_items(30) is run (by an operator: nothing in the
\* service calls it).
Sweep ==
    /\ dbUp
    /\ Stuck(queue_items, stuck_threshold_minutes) # {}
    /\ queue_items' = reset_stuck_items(queue_items, stuck_threshold_minutes)
    /\ UNCHANGED <<rowlocks, envvars, tasks, atDequeue, wvars, hookvars>>

Tick ==
    /\ queue_items' = [i \in Ids(queue_items) |-> TickRow(queue_items[i])]
    /\ queue_items' # queue_items
    /\ UNCHANGED <<rowlocks, envvars, tasks, atDequeue, wvars, hookvars>>

\* The remote record is edited in the task tracker.
RemoteChange(e) ==
    /\ remote[e] < MaxVersion
    /\ remote' = [remote EXCEPT ![e] = @ + 1]
    /\ UNCHANGED <<qvars, dbUp, bfvars, running, tasks, atDequeue, wvars, hookvars>>

WorkerStep(w) ==
    \/ RunDequeue(w)
    \/ Sleep(w)
    \/ NormalizeRaises(w)
    \/ NormalizeNone(w)
    \/ NormalizeTask(w)
    \/ UpsertBatch(w)
    \/ UpsertBatchRaises(w)
    \/ Ack(w)
    \/ Individual(w)

\* The service as it runs: producers, the workers and time.
Running ==
    \/ \E e \in ExtIds : Enqueue(e)
    \/ \E w \in Workers : WorkerStep(w)
    \/ \E w \in Workers : Crash(w)
    \/ Tick
    \/ RemoteChange("42")

Next ==
    \/ Running
    \/ Sweep

Spec == Init /\ [][Next]_vars

\* The connection is reset while upsert_tasks_batch runs its statement: the
\* method rolls back and re-raises, and _process_batch catches the exception
\* like any other and falls back to _process_teamwork_items_individually.
UpsertBatchConnectionError(w) ==
    /\ pc[w] = "upsert"
    /\ pc' = [pc EXCEPT ![w] = "individual"]
    /\ UNCHANGED <<qvars, envvars, tasks, atDequeue, todo, pairs, hookvars>>

\* The connection is reset while the upsert of one pair runs: the except
\* branch of the individual pass calls mark_item_failed(item, msg, retry=True),
\* whose own statement runs on a connection that _execute_with_retry restores.
IndividualConnectionError(w) ==
    /\ pc[w] = "individual"
    /\ Head(pairs[w]).task # NoTask
    /\ \E j \in Jitters :
          queue_items' = mark_item_failed(queue_items, Head(pairs[w]).id, "connection",
                                          DispatcherRetry, j)
    /\ AfterPair(w)
    /\ UNCHANGED <<rowlocks, envvars, tasks, atDequeue, todo, hookvars>>

\* The dispatcher with a database connection that may be reset under it.
NextOutage ==
    \/ \E e \in ExtIds : Enqueue(e)
    \/ \E w \in Workers : WorkerStep(w)
    \/ Tick
    \/ \E w \in Workers : UpsertBatchConnectionError(w)
    \/ \E w \in Workers : IndividualConnectionError(w)

SpecOutage == Init /\ [][NextOutage]_vars

\* Every worker keeps running and time passes; nothing runs the sweep.
FairSpec ==
    /\ Init
    /\ [][Running]_vars
    /\ \A w \in Workers : WF_vars(WorkerStep(w))
    /\ WF_vars(Tick)

\* ------------------------------------------------- the queue and its clients
\* The queue operations as any client may issue them, with the two halves of
\* the dequeue_items statement apart: the SELECT ... FOR UPDATE SKIP LOCKED
\* that locks the rows, and the UPDATE with the commit that releases them.
BatchSizes == {1, DispatchBatch}
SourceArgs == Sources \cup {AnySource}

AllLocks == UNION {rowlocks[w] : w \in Workers}
OtherLocks(w) == UNION {rowlocks[v] : v \in Workers \ {w}}

\* The ids of a set in ascending order.
RECURSIVE Ascending(_)
Ascending(S) ==
    IF S = {} THEN <<>>
    ELSE LET m == CHOOSE i \in S : \A j \in S : i <= j
         IN <<m>> \o Ascending(S \ {m})

QEnqueue(src, ext) ==
    /\ Len(queue_items) < MaxItems
    /\ queue_items' = enqueue(queue_items, src, ext)
    /\ UNCHANGED <<rowlocks, envvars, tasks, atDequeue, wvars, hookvars>>

QSelect(w, max_items, src) ==
    /\ pc[w] = "loop"
    /\ rowlocks' = [rowlocks EXCEPT ![w] = SelectRows(queue_items, OtherLocks(w), max_items, src)]
    /\ pc' = [pc EXCEPT ![w] = "claim"]
    /\ UNCHANGED <<queue_items, envvars, tasks, atDequeue, todo, pairs, hookvars>>

QClaim(w) ==
    /\ pc[w] = "claim"
    /\ queue_items' = ClaimRows(queue_items, rowlocks[w], w)
    /\ todo' = [todo EXCEPT ![w] = Ascending(SeqIds(@) \cup rowlocks[w])]
    /\ rowlocks' = [rowlocks EXCEPT ![w] = {}]
    /\ pc' = [pc EXCEPT ![w] = "loop"]
    /\ UNCHANGED <<envvars, tasks, atDequeue, pairs, hookvars>>

\* A statement on a row that a dequeue in flight has locked waits for it.
QMarkCompleted(w, i) ==
    /\ i \in SeqIds(todo[w])
    /\ i \notin AllLocks
    /\ queue_items' = mark_item_completed(queue_items, i)
    /\ todo' = [todo EXCEPT ![w] = Ascending(SeqIds(@) \ {i})]
    /\ UNCHANGED <<rowlocks, envvars, tasks, atDequeue, pc, pairs, hookvars>>

QMarkFailed(w, i, retry) ==
    /\ i \in SeqIds(todo[w])
    /\ i \notin AllLocks
    /\ \E j \in Jitters : queue_items' = mark_item_failed(queue_items, i, "error", retry, j)
    /\ todo' = [todo EXCEPT ![w] = Ascending(SeqIds(@) \ {i})]
    /\ UNCHANGED <<rowlocks, envvars, tasks, atDequeue, pc, pairs, hookvars>>

NextQueue ==
    \/ \E src \in Sources : QEnqueue(src, "42")
    \/ \E w \in Workers, m \in BatchSizes, src \in SourceArgs : QSelect(w, m, src)
    \/ \E w \in Workers : QClaim(w)
    \/ \E w \in Workers, i \in 1..MaxItems : QMarkCompleted(w, i)
    \/ \E w \in Workers, i \in 1..MaxItems, retry \in BOOLEAN : QMarkFailed(w, i, retry)
    \/ Sweep
    \/ Tick

SpecQueue == Init /\ [][NextQueue]_vars

\* _execute_with_retry around dequeue_items when the connection breaks after
\* operation(cur) and before self.conn.commit(): the server rolls the
\* statement back and releases its row locks; self.conn reconnects, the commit
\* on the new connection succeeds, and the rows fetched are returned.
QCommitLost(w) ==
    /\ pc[w] = "claim"
    /\ todo' = [todo EXCEPT ![w] = Ascending(SeqIds(@) \cup rowlocks[w])]
    /\ rowlocks' = [rowlocks EXCEPT ![w] = {}]
    /\ pc' = [pc EXCEPT ![w] = "loop"]
    /\ UNCHANGED <<queue_items, envvars, tasks, atDequeue, pairs, hookvars>>

\* The queue and its clients on connections that may break.
NextDequeue ==
    \/ NextQueue
    \/ \E w \in Workers : QCommitLost(w)

SpecDequeue == Init /\ [][NextDequeue]_vars

\* ------------------------------------------------------- the webhook receiver
\* One Flask process with one DatabaseManager; requests are handled one at a
\* time (get_db is serialised by the manager's lock). conn is the connection of
\* the receiver's PostgresQueue as the server sees it: "none" before the first
\* connect and after a close, "open", "tx" with an INSERT executed and not
\* committed, "lost" once it is broken (what it had not committed is gone).
DB_OPERATION_RETRIES == 3

\* hmac.new(secret, payload, sha256).hexdigest(): a keyed digest of the raw
\* body (no two (key, body) pairs collide).
Hmac(secret, payload) == <<"sha256", secret, payload>>

\* Raw bodies a client posts to /webhook/teamwork (form-encoded).
TeamworkBodies == {"", "x=1", "Task.ID=42", "ID=42", "Task.ID=42&ID=7"}

\* Raw bodies a client posts to /webhook/missive with a JSON content type.
MissiveBodies ==
    {"", "{}", "{event:e}", "{conversation:{id:c1}}",
     "{conversation:x,conversation_id:c2}", "{message:{conversationId:c3}}"}

Bodies(src) == IF src = "teamwork" THEN TeamworkBodies ELSE MissiveBodies

\* dict.get(key) where None, "" and a missing key are all falsy.
Get(d, k) == IF k \in DOMAIN d THEN d[k] ELSE ""

\* request.form.to_dict(): the fields of the form-encoded body.
form_to_dict(body) ==
    CASE body = "x=1" -> ("x" :> "1")
      [] body = "Task.ID=42" -> ("Task.ID" :> "42")
      [] body = "ID=42" -> ("ID" :> "42")
      [] body = "Task.ID=42&ID=7" -> ("Task.ID" :> "42") @@ ("ID" :> "7")
      [] OTHER -> [k \in {} |-> ""]

\* request.get_json(): the parsed object, a nested object flattened to dotted
\* keys; a body that is not JSON raises BadRequest.
JsonRaises(body) == body = ""

get_json(body) ==
    CASE body = "{event:e}" -> ("event" :> "e")
      [] body = "{conversation:{id:c1}}" -> ("conversation.id" :> "c1")
      [] body = "{conversation:x,conversation_id:c2}" ->
             ("conversation" :> "x") @@ ("conversation_id" :> "c2")
      [] body = "{message:{conversationId:c3}}" -> ("message.conversationId" :> "c3")
      [] OTHER -> [k \in {} |-> ""]

\* task_id = data.get("Task.ID") or data.get("ID")
extract_teamwork_id(data) ==
    IF Get(data, "Task.ID") # "" THEN Get(data, "Task.ID") ELSE Get(data, "ID")

\* _extract_missive_id: the conversation object's id, then the top-level
\* fields, then the message's fields, else "".
extract_missive_id(data) ==
    IF Get(data, "conversation.id") # "" THEN Get(data, "conversation.id")
    ELSE IF Get(data, "conversation_id") # "" THEN Get(data, "conversation_id")
    ELSE IF Get(data, "conversationId") # "" THEN Get(data, "conversationId")
    ELSE IF Get(data, "message.conversation_id") # "" THEN Get(data, "message.conversation_id")
    ELSE Get(data, "message.conversationId")

\* verify_teamwork_webhook without the check for a missing signature.
verify_teamwork_webhook_NoSignatureAccepted(payload, signature) ==
    \/ webhook_secret["teamwork"] = NoSecret
    \/ signature = NoSig
    \/ signature = Hmac(webhook_secret["teamwork"], payload)

\* verify_teamwork_webhook: no secret configured accepts everything; a missing
\* signature is refused; otherwise the signature is compared with the digest
\* of the raw body.
verify_teamwork_webhook(payload, signature) ==
    IF webhook_secret["teamwork"] = NoSecret THEN TRUE
    ELSE IF signature = NoSig THEN FALSE
    ELSE signature = Hmac(webhook_secret["teamwork"], payload)

\* verify_missive_webhook: the same with MISSIVE_WEBHOOK_SECRET.
verify_missive_webhook(payload, signature) ==
    IF webhook_secret["missive"] = NoSecret THEN TRUE
    ELSE IF signature = NoSig THEN FALSE
    ELSE signature = Hmac(webhook_secret["missive"], payload)

\* Header pairs (source's header, X-Hook-Signature) a client sends with body b.
Headers(b) ==
    {<<NoSig, NoSig>>, <<Hmac("s", b), NoSig>>, <<NoSig, Hmac("s", b)>>,
     <<Hmac("k", b), Hmac("s", b)>>, <<Hmac("s", "other"), NoSig>>}

\* request.headers.get(A) or request.headers.get("X-Hook-Signature")
Signature(h) == IF h[1] # NoSig THEN h[1] ELSE h[2]

\* The handler answers without touching the database.
Answer(src, body, sig, code) ==
    [IdleHook EXCEPT !.pc = "done", !.kind = "webhook", !.source = src, !.body = body,
                     !.sig = sig, !.status = code, !.before = Len(queue_items),
                     !.up = dbUp, !.down = ~dbUp]

\* teamwork_webhook up to db_manager.get_queue(): a failed verification is
\* answered 401, no form data or no task id 400.
TeamworkReceive(body, h) ==
    /\ hook.pc = "idle"
    /\ LET sig == Signature(h)
           data == form_to_dict(body)
           task_id == extract_teamwork_id(data)
       IN  IF ~verify_teamwork_webhook(body, sig)
           THEN hook' = Answer("teamwork", body, sig, 401)
           ELSE IF DOMAIN data = {} \/ task_id = ""
           THEN hook' = Answer("teamwork", body, sig, 400)
           ELSE /\ Len(queue_items) < MaxItems
                /\ hook' = [Answer("teamwork", body, sig, 0) EXCEPT
                                !.pc = "get_queue", !.ext = task_id]
    /\ UNCHANGED <<qvars, envvars, tasks, atDequeue, wvars, conn, webhook_secret, recent, session, mgr, exc, periodic, dispatch>>

\* missive_webhook up to db_manager.get_queue(): a failed verification is
\* answered 401; get_json raising is caught by the handler's except clause and
\* answered 500; an empty object or no conversation id 400.
MissiveReceive(body, h) ==
    /\ hook.pc = "idle"
    /\ LET sig == Signature(h)
           data == get_json(body)
           external_id == extract_missive_id(data)
       IN  IF ~verify_missive_webhook(body, sig)
           THEN hook' = Answer("missive", body, sig, 401)
           ELSE IF JsonRaises(body)
           THEN hook' = Answer("missive", body, sig, 500)
           ELSE IF DOMAIN data = {} \/ external_id = ""
           THEN hook' = Answer("missive", body, sig, 400)
           ELSE /\ Len(queue_items) < MaxItems
                /\ hook' = [Answer("missive", body, sig, 0) EXCEPT
                                !.pc = "get_queue", !.ext = external_id]
    /\ UNCHANGED <<qvars, envvars, tasks, atDequeue, wvars, conn, webhook_secret, recent, session, mgr, exc, periodic, dispatch>>

\* DatabaseManager.get_db at position at of the handler, which goes on at
\* position next with hook.db telling whether a database came back. A
\* connected database is returned; a broken one is closed and dropped. Then
\* within _min_retry_interval of the last connection attempt None is returned,
\* and otherwise the attempt is noted and _try_connect is entered.
get_db(at, next) ==
    /\ hook.pc = at
    /\ IF conn = "open"
       THEN /\ hook' = [hook EXCEPT !.pc = next, !.db = TRUE]
            /\ UNCHANGED <<conn, recent, session, mgr, exc, periodic, dispatch>>
       ELSE /\ conn' = "none"
            /\ IF recent
               THEN /\ hook' = [hook EXCEPT !.pc = next, !.db = FALSE]
                    /\ recent' = recent
               ELSE /\ hook' = [hook EXCEPT !.pc = "connect", !.ret = next]
                    /\ recent' = TRUE
    /\ UNCHANGED <<qvars, envvars, tasks, atDequeue, wvars, webhook_secret, session, mgr, exc, periodic, dispatch>>

\* _try_connect: PostgresDatabase() runs PostgresConnection._connect, which
\* tries again until the database accepts the connection.
TryConnect ==
    /\ hook.pc = "connect"
    /\ dbUp
    /\ conn' = "open"
    /\ hook' = [hook EXCEPT !.pc = hook.ret, !.ret = "", !.db = TRUE]
    /\ UNCHANGED <<qvars, envvars, tasks, atDequeue, wvars, webhook_secret, recent, session, mgr, exc, periodic, dispatch>>

\* queue = db_manager.get_queue()
HookGetQueue == get_db("get_queue", "queue")

\* if queue is None: 503
HookQueue ==
    /\ hook.pc = "queue"
    /\ hook' = IF hook.db THEN [hook EXCEPT !.pc = "cursor"]
               ELSE [hook EXCEPT !.pc = "done", !.status = 503]
    /\ UNCHANGED <<qvars, envvars, tasks, atDequeue, wvars, conn, webhook_secret, recent, session, mgr, exc, periodic, dispatch>>

\* PostgresConnection.conn: _ensure_connected probes the connection and, when
\* the probe fails, _connect returns a new connection once the database is up.
EnsureConnected(c) == IF c \in {"open", "tx"} THEN c ELSE "open"
CanEnsure == conn \in {"open", "tx"} \/ dbUp

\* _execute_with_retry: with self.conn.cursor() as cur
HookCursor ==
    /\ hook.pc = "cursor"
    /\ CanEnsure
    /\ conn' = EnsureConnected(conn)
    /\ hook' = [hook EXCEPT !.pc = "execute"]
    /\ UNCHANGED <<qvars, envvars, tasks, atDequeue, wvars, webhook_secret, recent, session, mgr, exc, periodic, dispatch>>

\* operation(cur): the INSERT is executed; on a broken connection it raises a
\* connection error, self.conn.rollback() reconnects, and the operation is
\* tried again, or enqueue returns the fallback False (503) after the last try.
HookExecute ==
    /\ hook.pc = "execute"
    /\ IF conn = "open"
       THEN /\ conn' = "tx"
            /\ hook' = [hook EXCEPT !.pc = "commit"]
       ELSE /\ dbUp
            /\ conn' = "open"
            /\ hook' = IF hook.attempt < DB_OPERATION_RETRIES
                       THEN [hook EXCEPT !.pc = "cursor", !.attempt = @ + 1]
                       ELSE [hook EXCEPT !.pc = "done", !.status = 503]
    /\ UNCHANGED <<qvars, envvars, tasks, atDequeue, wvars, webhook_secret, recent, session, mgr, exc, periodic, dispatch>>

\* self.conn.commit(): self.conn is evaluated again, so the commit runs on the
\* connection _ensure_connected returns; enqueue returns True and the handler
\* answers 200.
HookCommit ==
    /\ hook.pc = "commit"
    /\ CanEnsure
    /\ queue_items' = IF conn = "tx" THEN enqueue(queue_items, hook.source, hook.ext)
                      ELSE queue_items
    /\ conn' = "open"
    /\ hook' = [hook EXCEPT !.pc = "done", !.status = 200]
    /\ UNCHANGED <<rowlocks, envvars, tasks, atDequeue, wvars, webhook_secret, recent, session, mgr, exc, periodic, dispatch>>

\* The response is sent.
HookRespond ==
    /\ hook.pc = "done"
    /\ hook' = IdleHook
    /\ UNCHANGED <<qvars, envvars, tasks, atDequeue, wvars, conn, webhook_secret, recent, session, mgr, exc, periodic, dispatch>>

\* ------------------------------------------------------------- GET /health
\* The queue_health view: the number of pending rows over all sources, and the
\* sources it has a line for.
PendingCount(q) == Cardinality({i \in Ids(q) : q[i].status = "pending"})
HealthSources(q) == {q[i].source : i \in Ids(q)}

HealthReceive ==
    /\ hook.pc = "idle"
    /\ hook' = [IdleHook EXCEPT !.pc = "h_is_available", !.kind = "health",
                                !.before = Len(queue_items), !.up = dbUp, !.down = ~dbUp]
    /\ UNCHANGED <<qvars, envvars, tasks, atDequeue, wvars, conn, webhook_secret, recent, session, mgr, exc, periodic, dispatch>>

\* db_available = db_manager.is_available()
HealthIsAvailable == get_db("h_is_available", "h_available")

HealthAvailable ==
    /\ hook.pc = "h_available"
    /\ hook' = [hook EXCEPT !.pc = "h_get_queue", !.avail = hook.db]
    /\ UNCHANGED <<qvars, envvars, tasks, atDequeue, wvars, conn, webhook_secret, recent, session, mgr, exc, periodic, dispatch>>

\* queue = db_manager.get_queue()
HealthGetQueue == get_db("h_get_queue", "h_queue")

\* The response: always 200, with the metrics read so far.
HealthAnswer(pending, details, failed) ==
    [hook EXCEPT !.pc = "done", !.status = 200, !.pending = pending,
                 !.details = details, !.failed = failed]

\* if queue is not None: get_queue_health() reads the view on the connection
\* _ensure_connected returns, and returns the fallback {} when the query
\* failed on every try; with no queue the metrics stay empty.
HealthQuery ==
    /\ hook.pc = "h_queue"
    /\ IF ~hook.db
       THEN /\ hook' = HealthAnswer(0, {}, FALSE)
            /\ conn' = conn
       ELSE /\ CanEnsure
            /\ conn' = EnsureConnected(conn)
            /\ \/ hook' = HealthAnswer(PendingCount(queue_items),
                                       HealthSources(queue_items), FALSE)
               \/ /\ conn # "open"
                  /\ hook' = HealthAnswer(0, {}, TRUE)
    /\ UNCHANGED <<qvars, envvars, tasks, atDequeue, wvars, webhook_secret, recent, session, mgr, exc, periodic, dispatch>>

\* ------------------------------------------------- the receiver's environment
\* A request in progress notes that the database or its connection went away
\* (up) or came back (down) while it was handled.
Noting(field, value) ==
    IF hook.pc \in {"idle", "done"} THEN hook ELSE [hook EXCEPT ![field] = value]

\* The connection breaks (network reset, idle timeout, server restart).
ConnLost ==
    /\ conn \in {"open", "tx"}
    /\ conn' = "lost"
    /\ hook' = Noting("up", FALSE)
    /\ UNCHANGED <<qvars, envvars, tasks, atDequeue, wvars, webhook_secret, recent, session, mgr, exc, periodic, dispatch>>

DbDown ==
    /\ dbUp
    /\ dbUp' = FALSE
    /\ conn' = IF conn \in {"open", "tx"} THEN "lost" ELSE conn
    /\ hook' = Noting("up", FALSE)
    /\ UNCHANGED <<qvars, remote, bfvars, running, tasks, atDequeue, wvars, webhook_secret, recent, session, mgr, exc, periodic, dispatch>>

DbUp ==
    /\ ~dbUp
    /\ dbUp' = TRUE
    /\ hook' = Noting("down", FALSE)
    /\ UNCHANGED <<qvars, remote, bfvars, running, tasks, atDequeue, wvars, conn, webhook_secret, recent, session, mgr, exc, periodic, dispatch>>

\* _min_retry_interval has passed since the last connection attempt.
IntervalPasses ==
    /\ recent
    /\ recent' = FALSE
    /\ UNCHANGED <<qvars, envvars, tasks, atDequeue, wvars, conn, hook, webhook_secret, session, mgr, exc, periodic, dispatch>>

\* One step of the request in progress.
HandlerStep ==
    \/ HookGetQueue
    \/ TryConnect
    \/ HookQueue
    \/ HookCursor
    \/ HookExecute
    \/ HookCommit
    \/ HealthIsAvailable
    \/ HealthAvailable
    \/ HealthGetQueue
    \/ HealthQuery
    \/ HookRespond

NextWebhook ==
    \/ \E b \in TeamworkBodies : \E h \in Headers(b) : TeamworkReceive(b, h)
    \/ \E b \in MissiveBodies : \E h \in Headers(b) : MissiveReceive(b, h)
    \/ HealthReceive
    \/ HandlerStep
    \/ ConnLost
    \/ DbDown
    \/ DbUp
    \/ IntervalPasses

\* The receiver under every configuration of the two webhook secrets.
InitWebhook ==
    /\ queue_items = <<>>
    /\ rowlocks = [w \in Workers |-> {}]
    /\ dbUp = TRUE
    /\ remote = [e \in ExtIds |-> 0]
    /\ tasks = [e \in ExtIds |-> NoRow]
    /\ atDequeue = [e \in ExtIds |-> 0]
    /\ pc = [w \in Workers |-> "loop"]
    /\ todo = [w \in Workers |-> <<>>]
    /\ pairs = [w \in Workers |-> <<>>]
    /\ conn = "none"
    /\ hook = IdleHook
    /\ webhook_secret \in [Sources -> Secrets \cup {NoSecret}]
    /\ recent = FALSE
    /\ session = IdleSession
    /\ mgr = NewManager
    /\ exc = NoExc
    /\ periodic = NewPeriodic
    /\ dispatch = NewBatch
    /\ checkpoint = [s \in Sources |-> NoCheckpoint]
    /\ clock = 0
    /\ poll = NoPoll
    /\ running = [w \in Workers |-> TRUE]

SpecWebhook == InitWebhook /\ [][NextWebhook]_vars

\* ------------------------------------------------- the backfill reconciler
\* Time is counted in ticks of the reconciler's wall clock; records may carry
\* timestamps one tick ahead of every clock reading (clock skew).
Times == 0 .. MaxClock + 1

\* Task records the Teamwork API can return, and Missive conversations.
TaskRecords == [id : {"42"}, updatedAt : Times]
Conversations == [id : {"c1"}, last_activity_at : Times, updated_at : Times]

\* One API response: a page of at most PageSize records, or a failed request.
RECURSIVE SeqsUpTo(_, _)
SeqsUpTo(S, n) ==
    IF n = 0 THEN {<<>>}
    ELSE SeqsUpTo(S, n - 1) \cup {<<x>> \o s : x \in S, s \in {t \in SeqsUpTo(S, n - 1) : Len(t) = n - 1}}

Responses(Recs) ==
    {[ok |-> FALSE, records |-> <<>>]} \cup {[ok |-> TRUE, records |-> r] : r \in SeqsUpTo(Recs, PageSize)}

\* since = checkpoint.last_event_time - BACKFILL_OVERLAP_SECONDS, or the
\* process-after date of a first run.
Since(src) ==
    IF checkpoint[src] = NoCheckpoint THEN 0 ELSE Max(0, checkpoint[src] - OverlapTicks)

\* _get_tasks_with_filter: the pages are requested one after the other and
\* their records collected, until a page is not full; a request that raises is
\* logged and ends the loop, and the records collected so far are returned.
RECURSIVE get_tasks_with_filter(_, _)
get_tasks_with_filter(responses, page) ==
    IF page > Len(responses) \/ ~responses[page].ok THEN <<>>
    ELSE responses[page].records \o
             (IF Len(responses[page].records) < PageSize THEN <<>>
              ELSE get_tasks_with_filter(responses, page + 1))

\* get_conversations_updated_since: the same loop, keeping the conversations
\* with last_activity_at >= since and stopping after a page that reaches
\* conversations older than since.
RECURSIVE get_conversations_updated_since(_, _, _)
get_conversations_updated_since(responses, page, since) ==
    IF page > Len(responses) \/ ~responses[page].ok THEN <<>>
    ELSE LET batch == responses[page].records
         IN  SelectSeq(batch, LAMBDA c : c.last_activity_at >= since) \o
                 (IF \/ Len(batch) < PageSize
                     \/ \E i \in 1 .. Len(batch) : batch[i].last_activity_at < since
                  THEN <<>>
                  ELSE get_conversations_updated_since(responses, page + 1, since))

\* A request of the loop failed: the loop reached a page that raised.
RECURSIVE PageFailed(_, _)
PageFailed(responses, page) ==
    /\ page <= Len(responses)
    /\ \/ ~responses[page].ok
       \/ /\ Len(responses[page].records) = PageSize
          /\ PageFailed(responses, page + 1)

\* self.queue.enqueue(item) for each record, in order.
RECURSIVE enqueue_each(_, _, _)
enqueue_each(q, src, ids) ==
    IF ids = <<>> THEN q ELSE enqueue_each(enqueue(q, src, Head(ids)), src, Tail(ids))

\* latest_time = now, raised to the latest record timestamp beyond it.
RECURSIVE latest_time(_, _)
latest_time(now, stamps) ==
    IF stamps = <<>> THEN now
    ELSE latest_time(IF Head(stamps) > now THEN Head(stamps) ELSE now, Tail(stamps))

\* set_checkpoint: the upsert replaces last_event_time.
set_checkpoint(cp, src, t) == [cp EXCEPT ![src] = t]

\* _backfill_teamwork: fetch, enqueue every task, write the checkpoint.
backfill_teamwork(responses) ==
    LET tasks_ == get_tasks_with_filter(responses, 1)
    IN  /\ \A i \in 1 .. Len(tasks_) : tasks_[i].updatedAt >= Since("teamwork")
        /\ Len(queue_items) + Len(tasks_) <= MaxItems
        /\ queue_items' = enqueue_each(queue_items, "teamwork", [i \in 1 .. Len(tasks_) |-> tasks_[i].id])
        /\ checkpoint' = set_checkpoint(checkpoint, "teamwork",
               latest_time(clock, [i \in 1 .. Len(tasks_) |-> tasks_[i].updatedAt]))
        /\ poll' = [source |-> "teamwork", failed |-> PageFailed(responses, 1), fetched |-> Len(tasks_)]
        /\ UNCHANGED <<rowlocks, dbUp, remote, clock, running, tasks, atDequeue, wvars, hookvars>>

\* _backfill_missive: the same for conversations.
backfill_missive(responses) ==
    LET conversations == get_conversations_updated_since(responses, 1, Since("missive"))
    IN  /\ Len(queue_items) + Len(conversations) <= MaxItems
        /\ queue_items' = enqueue_each(queue_items, "missive",
               [i \in 1 .. Len(conversations) |-> conversations[i].id])
        /\ checkpoint' = set_checkpoint(checkpoint, "missive",
               latest_time(clock, [i \in 1 .. Len(conversations) |-> conversations[i].updated_at]))
        /\ poll' = [source |-> "missive", failed |-> PageFailed(responses, 1),
                    fetched |-> Len(conversations)]
        /\ UNCHANGED <<rowlocks, dbUp, remote, clock, running, tasks, atDequeue, wvars, hookvars>>

\* The wall clock advances.
ClockTick ==
    /\ clock < MaxClock
    /\ clock' = clock + 1
    /\ UNCHANGED <<qvars, dbUp, remote, checkpoint, poll, running, tasks, atDequeue, wvars, hookvars>>

NextBackfill ==
    \/ \E rs \in SeqsUpTo(Responses(TaskRecords), MaxPages) : backfill_teamwork(rs)
    \/ \E rs \in SeqsUpTo(Responses(Conversations), MaxPages) : backfill_missive(rs)
    \/ ClockTick

SpecBackfill == Init /\ [][NextBackfill]_vars

\* The queue with workers that only acknowledge, under a clock that moves
\* between their calls.
NextCompleted ==
    \/ \E src \in Sources : QEnqueue(src, "42")
    \/ \E w \in Workers, src \in SourceArgs : QSelect(w, DispatchBatch, src)
    \/ \E w \in Workers : QClaim(w)
    \/ \E w \in Workers, i \in 1..MaxItems : QMarkCompleted(w, i)
    \/ Sweep
    \/ Tick
    \/ ClockTick

SpecCompleted == Init /\ [][NextCompleted]_vars

\* ------------------------------------------------- the dispatcher's lifecycle
\* The worker processes from their start to their exit, with database outages
\* and shutdown signals. A worker is at "init" in WorkerDispatcher.__init__, at
\* "loop" at the test of `while self.running`, at "ensure" and "connect" in
\* _ensure_database, at "dequeue" before dequeue_batch, and then where
\* _process_batch is, until it is back at "loop" or has "exited".

\* WorkerDispatcher.__init__: the signal handlers are registered and
\* _ensure_database is entered.
Construct(w) ==
    /\ pc[w] = "init"
    /\ pc' = [pc EXCEPT ![w] = "connect"]
    /\ UNCHANGED <<qvars, envvars, tasks, atDequeue, todo, pairs, hookvars>>

\* while self.running: the next iteration begins.
LoopTop(w) ==
    /\ pc[w] = "loop"
    /\ running[w]
    /\ pc' = [pc EXCEPT ![w] = "ensure"]
    /\ UNCHANGED <<qvars, envvars, tasks, atDequeue, todo, pairs, hookvars>>

\* _ensure_database: a connection that answers the probe is kept; a broken
\* one is closed and _create_database is entered.
ensure_database(w) ==
    /\ pc[w] = "ensure"
    /\ pc' = [pc EXCEPT ![w] = IF dbUp THEN "dequeue" ELSE "connect"]
    /\ UNCHANGED <<qvars, envvars, tasks, atDequeue, todo, pairs, hookvars>>

\* _create_database that gives up when the database refuses the connection:
\* the process ends.
create_database_GivesUp(w) ==
    /\ pc[w] = "connect"
    /\ pc' = [pc EXCEPT ![w] = IF dbUp THEN "dequeue" ELSE "exited"]
    /\ UNCHANGED <<qvars, envvars, tasks, atDequeue, todo, pairs, hookvars>>

\* _create_database: PostgresDatabase() runs PostgresConnection._connect, which
\* sleeps (the delay doubling up to DB_MAX_RECONNECT_DELAY) and tries again
\* until the database accepts the connection.
create_database(w) ==
    /\ pc[w] = "connect"
    /\ dbUp
    /\ pc' = [pc EXCEPT ![w] = "dequeue"]
    /\ UNCHANGED <<qvars, envvars, tasks, atDequeue, todo, pairs, hookvars>>

\* items = self.queue.dequeue_batch(max_items=10); on an empty result the
\* worker sleeps and goes to the next iteration.
LifeDequeue(w) ==
    /\ pc[w] = "dequeue"
    /\ dbUp
    /\ LET ids == SelectRows(queue_items, {}, DispatchBatch, AnySource)
       IN IF ids = {}
          THEN /\ pc' = [pc EXCEPT ![w] = "sleep"]
               /\ UNCHANGED <<queue_items, todo, atDequeue>>
          ELSE /\ queue_items' = dequeue_batch(queue_items, w, DispatchBatch, AnySource)
               /\ todo' = [todo EXCEPT ![w] = RowOrder(queue_items, ids)]
               /\ atDequeue' = NoteDequeue(ids)
               /\ pc' = [pc EXCEPT ![w] = "normalize"]
    /\ UNCHANGED <<rowlocks, envvars, tasks, pairs, hookvars>>

\* _process_batch, step by step.
BatchStep(w) ==
    \/ Sleep(w)
    \/ NormalizeRaises(w)
    \/ NormalizeNone(w)
    \/ NormalizeTask(w)
    \/ UpsertBatch(w)
    \/ UpsertBatchRaises(w)
    \/ Ack(w)
    \/ Individual(w)

\* The loop ends and _cleanup closes the connection.
Exit(w) ==
    /\ pc[w] = "loop"
    /\ ~running[w]
    /\ pc' = [pc EXCEPT ![w] = "exited"]
    /\ UNCHANGED <<qvars, envvars, tasks, atDequeue, todo, pairs, hookvars>>

\* One step of worker w.
LifeStep(w) ==
    \/ Construct(w)
    \/ LoopTop(w)
    \/ ensure_database(w)
    \/ create_database(w)
    \/ LifeDequeue(w)
    \/ BatchStep(w)
    \/ Exit(w)

\* _signal_handler: SIGINT or SIGTERM is delivered to the worker process.
Signal(w) ==
    /\ running[w]
    /\ pc[w] # "exited"
    /\ running' = [running EXCEPT ![w] = FALSE]
    /\ UNCHANGED <<qvars, dbUp, remote, bfvars, tasks, atDequeue, wvars, hookvars>>

NextLifecycle ==
    \/ \E w \in Workers : LifeStep(w)
    \/ \E w \in Workers : Signal(w)
    \/ \E e \in ExtIds : Enqueue(e)
    \/ DbDown
    \/ DbUp

\* The workers are started while the database is down.
InitLifecycle ==
    /\ queue_items = <<>>
    /\ rowlocks = [w \in Workers |-> {}]
    /\ dbUp = FALSE
    /\ remote = [e \in ExtIds |-> 0]
    /\ tasks = [e \in ExtIds |-> NoRow]
    /\ atDequeue = [e \in ExtIds |-> 0]
    /\ pc = [w \in Workers |-> "init"]
    /\ todo = [w \in Workers |-> <<>>]
    /\ pairs = [w \in Workers |-> <<>>]
    /\ conn = "none"
    /\ hook = IdleHook
    /\ webhook_secret = [s \in Sources |-> NoSecret]
    /\ recent = FALSE
    /\ session = IdleSession
    /\ mgr = NewManager
    /\ exc = NoExc
    /\ periodic = NewPeriodic
    /\ dispatch = NewBatch
    /\ checkpoint = [s \in Sources |-> NoCheckpoint]
    /\ clock = 0
    /\ poll = NoPoll
    /\ running = [w \in Workers |-> TRUE]

SpecLifecycle == InitLifecycle /\ [][NextLifecycle]_vars

\* The same with every worker scheduled again and again.
FairLifecycle == SpecLifecycle /\ \A w \in Workers : WF_vars(LifeStep(w))

\* ------------------------------------------------------------- DB session
\* settings.DB_RECONNECT_DELAY and settings.DB_MAX_RECONNECT_DELAY, in seconds.
DB_RECONNECT_DELAY == 1
DB_MAX_RECONNECT_DELAY == 30

\* The retry wrappers of the session and of the queue, and a bare
\* _ensure_connected().
Wrappers == {"execute_with_retry", "with_db_retry", "_execute_with_retry"}
SessionCalls == Wrappers \cup {"_ensure_connected"}

\* A backoff without the cap.
next_delay_Uncapped(delay) == delay * 2

\* delay = min(delay * 2, settings.DB_MAX_RECONNECT_DELAY)
next_delay(delay) == Min(delay * 2, DB_MAX_RECONNECT_DELAY)

sessvars == <<qvars, envvars, tasks, atDequeue, wvars, hook, webhook_secret, recent, mgr, exc, periodic, dispatch>>

\* A wrapper is entered: delay = settings.DB_RECONNECT_DELAY, attempt 0; or
\* _ensure_connected is called on its own.
SessionCall(fn) ==
    /\ session.pc = "idle"
    /\ session' = [IdleSession EXCEPT !.valid = session.valid, !.pc = "ensure", !.fn = fn,
                       !.ret = IF fn = "_ensure_connected" THEN "return" ELSE "op",
                       !.delay = DB_RECONNECT_DELAY]
    /\ UNCHANGED <<sessvars, conn>>

\* _ensure_connected: a connection marked valid is probed with SELECT 1 and
\* kept when the probe passes; otherwise _connect is entered. The probe
\* raises on a broken connection and on one left in a failed transaction.
SessionEnsure ==
    /\ session.pc = "ensure"
    /\ session' = IF session.valid /\ conn = "open"
                  THEN [session EXCEPT !.pc = session.ret]
                  ELSE [session EXCEPT !.pc = "connect", !.valid = FALSE,
                                       !.cdelay = DB_RECONNECT_DELAY, !.fails = 0]
    /\ UNCHANGED <<sessvars, conn>>

\* A _connect that returns after a failed attempt.
SessionConnect_GivesUp ==
    /\ session.pc = "connect"
    /\ IF dbUp
       THEN /\ conn' = "open"
            /\ session' = [session EXCEPT !.pc = session.ret, !.valid = TRUE]
       ELSE /\ conn' = IF conn = "none" THEN "none" ELSE "lost"
            /\ session' = [session EXCEPT !.pc = session.ret, !.valid = FALSE]
    /\ UNCHANGED sessvars

\* _connect, one turn of its while True: the old connection is closed and
\* psycopg2.connect is called; on success the connection is marked valid and
\* _connect returns, on failure it sleeps delay, doubles it up to the cap and
\* tries again.
SessionConnect ==
    /\ session.pc = "connect"
    /\ IF dbUp
       THEN /\ conn' = "open"
            /\ session' = [session EXCEPT !.pc = session.ret, !.valid = TRUE]
       ELSE /\ conn' = IF conn = "none" THEN "none" ELSE "lost"
            /\ session' = [session EXCEPT !.valid = FALSE, !.wait = session.cdelay,
                               !.cdelay = next_delay(@),
                               !.fails = Min(@ + 1, MaxConnectFails)]
    /\ UNCHANGED sessvars

\* operation(cur) returns (and, in the queue's wrapper, is committed).
SessionOpReturns ==
    /\ session.pc = "op"
    /\ conn = "open"
    /\ session' = [session EXCEPT !.pc = "done", !.runs = @ + 1, !.last = "none",
                       !.rolled = FALSE, !.result = "returned"]
    /\ UNCHANGED <<sessvars, conn>>

\* operation(cur) raises an error that is_connection_error does not take for
\* a connection error: execute_with_retry rolls back and raises, with_db_retry
\* raises with the failed transaction left open, and the queue's wrapper
\* rolls back and returns the fallback result its caller gave.
SessionOpRaises ==
    /\ session.pc = "op"
    /\ conn \in {"open", "tx"}
    /\ session' = [session EXCEPT !.pc = "done", !.runs = @ + 1, !.last = "data",
                       !.rolled = session.fn # "with_db_retry",
                       !.result = IF session.fn = "_execute_with_retry"
                                  THEN "fallback" ELSE "raised"]
    /\ conn' = IF session.fn = "with_db_retry" THEN "tx" ELSE "open"
    /\ UNCHANGED sessvars

\* The wait and the bookkeeping before the next attempt, or the end of the
\* call after the last one.
AfterConnectionError(s) ==
    IF s.attempt < DB_OPERATION_RETRIES
    THEN [s EXCEPT !.pc = "ensure", !.ret = "op", !.wait = s.delay, !.valid = FALSE,
                   !.delay = next_delay(@), !.attempt = @ + 1]
    ELSE [s EXCEPT !.pc = "done",
                   !.result = IF s.fn = "_execute_with_retry" THEN "fallback" ELSE "raised"]

\* operation(cur) raises a connection error: execute_with_retry calls
\* self._conn.rollback() (whose own failure is ignored), with_db_retry does
\* not; the queue's wrapper calls self.conn.rollback(), and self.conn goes
\* through _ensure_connected first.
SessionOpConnectionError ==
    /\ session.pc = "op"
    /\ conn = "lost"
    /\ LET s == [session EXCEPT !.runs = @ + 1, !.last = "connection",
                                !.rolled = session.fn = "execute_with_retry"]
       IN session' = IF session.fn = "_execute_with_retry"
                     THEN [s EXCEPT !.pc = "ensure", !.ret = "rollback"]
                     ELSE AfterConnectionError(s)
    /\ UNCHANGED <<sessvars, conn>>

\* The queue's wrapper after self.conn came back: rollback, then the wait
\* or the fallback result.
SessionRollback ==
    /\ session.pc = "rollback"
    /\ session' = AfterConnectionError([session EXCEPT !.rolled = TRUE])
    /\ UNCHANGED <<sessvars, conn>>

\* _ensure_connected returns to its caller.
SessionReturn ==
    /\ session.pc = "return"
    /\ session' = [session EXCEPT !.pc = "done", !.result = "returned"]
    /\ UNCHANGED <<sessvars, conn>>

\* The call is over.
SessionDone ==
    /\ session.pc = "done"
    /\ session' = [IdleSession EXCEPT !.valid = session.valid]
    /\ UNCHANGED <<sessvars, conn>>

SessionStep ==
    \/ SessionEnsure
    \/ SessionConnect
    \/ SessionOpReturns
    \/ SessionOpRaises
    \/ SessionOpConnectionError
    \/ SessionRollback
    \/ SessionReturn
    \/ SessionDone

NextSession ==
    \/ \E fn \in SessionCalls : SessionCall(fn)
    \/ SessionStep
    \/ ConnLost
    \/ DbDown
    \/ DbUp

\* PostgresConnection.__init__ has returned: _connect has connected.
InitSession ==
    /\ queue_items = <<>>
    /\ rowlocks = [w \in Workers |-> {}]
    /\ dbUp = TRUE
    /\ remote = [e \in ExtIds |-> 0]
    /\ tasks = [e \in ExtIds |-> NoRow]
    /\ atDequeue = [e \in ExtIds |-> 0]
    /\ pc = [w \in Workers |-> "loop"]
    /\ todo = [w \in Workers |-> <<>>]
    /\ pairs = [w \in Workers |-> <<>>]
    /\ conn = "open"
    /\ hook = IdleHook
    /\ webhook_secret = [s \in Sources |-> NoSecret]
    /\ recent = FALSE
    /\ session = [IdleSession EXCEPT !.valid = TRUE]
    /\ mgr = NewManager
    /\ exc = NoExc
    /\ periodic = NewPeriodic
    /\ dispatch = NewBatch
    /\ checkpoint = [s \in Sources |-> NoCheckpoint]
    /\ clock = 0
    /\ poll = NoPoll
    /\ running = [w \in Workers |-> TRUE]

SpecSession == InitSession /\ [][NextSession]_vars

\* The same with the thread that runs the call scheduled again and again.
FairSession == SpecSession /\ WF_vars(SessionStep)

\* ----------------------------------------------- threads on one manager
mgrvars == <<qvars, envvars, tasks, atDequeue, wvars, conn, hook, webhook_secret, recent,
             session, exc, periodic, dispatch>>

\* PostgresConnection.is_connected, and the probe of _ensure_connected: the
\* handle is marked valid and SELECT 1 passes on its connection.
Alive(h) == mgr.valid[h] /\ mgr.cur[h] # 0 /\ mgr.cur[h] \notin mgr.dead

\* get_db: with self._lock
GetDbLock(t) ==
    /\ mgr.tpc[t] = "idle"
    /\ mgr.lock = NoThread
    /\ mgr' = [mgr EXCEPT !.lock = t, !.tpc[t] = "get_db"]
    /\ UNCHANGED mgrvars

\* get_db: a handle that is connected is returned; one that is not is about
\* to be closed; without a handle a connection attempt is considered.
GetDbProbe(t) ==
    /\ mgr.tpc[t] = "get_db"
    /\ mgr' = IF mgr.db = 0 THEN [mgr EXCEPT !.tpc[t] = "attempt"]
              ELSE IF Alive(mgr.db) THEN [mgr EXCEPT !.lock = NoThread, !.tpc[t] = "read"]
              ELSE [mgr EXCEPT !.valid[mgr.db] = FALSE, !.tpc[t] = "close"]
    /\ UNCHANGED mgrvars

\* get_db: self._db.close()
GetDbClose(t) ==
    /\ mgr.tpc[t] = "close"
    /\ mgr' = [mgr EXCEPT !.dead = @ \cup ({mgr.cur[mgr.db]} \ {0}),
                          !.cur[mgr.db] = 0, !.tpc[t] = "clear"]
    /\ UNCHANGED mgrvars

\* get_db: self._db = None; self._queue = None
GetDbClear(t) ==
    /\ mgr.tpc[t] = "clear"
    /\ mgr' = [mgr EXCEPT !.db = 0, !.queue = 0, !.tpc[t] = "attempt"]
    /\ UNCHANGED mgrvars

\* get_db: within _min_retry_interval of the last attempt None is returned,
\* otherwise _try_connect is called.
GetDbAttempt(t, limited) ==
    /\ mgr.tpc[t] = "attempt"
    /\ mgr' = IF limited THEN [mgr EXCEPT !.lock = NoThread, !.tpc[t] = "read"]
              ELSE [mgr EXCEPT !.tpc[t] = "try_connect"]
    /\ UNCHANGED mgrvars

\* _try_connect: self._db = PostgresDatabase(), whose constructor connects;
\* self._queue = PostgresQueue(self._db); get_db returns and frees the lock.
TryConnectNew(t) ==
    /\ mgr.tpc[t] = "try_connect"
    /\ dbUp
    /\ mgr.made < MaxHandles
    /\ mgr.conns < MaxConns
    /\ LET h == mgr.made + 1
           c == mgr.conns + 1
       IN mgr' = [mgr EXCEPT !.made = h, !.conns = c, !.cur[h] = c, !.valid[h] = TRUE,
                             !.db = h, !.queue = h, !.lock = NoThread, !.tpc[t] = "read"]
    /\ UNCHANGED mgrvars

\* get_queue: return self._queue, read after get_db has freed the lock.
ReadQueue(t) ==
    /\ mgr.tpc[t] = "read"
    /\ mgr' = [mgr EXCEPT !.got[t] = mgr.queue,
                          !.tpc[t] = IF mgr.queue = 0 THEN "done" ELSE "ensure"]
    /\ UNCHANGED mgrvars

\* The handler's queue call reaches self.conn: _ensure_connected on the
\* handle the queue is bound to, outside any lock.
ThreadEnsure(t) ==
    /\ mgr.tpc[t] = "ensure"
    /\ LET h == mgr.got[t]
       IN mgr' = IF Alive(h)
                 THEN [mgr EXCEPT !.using[t] = mgr.cur[h], !.tpc[t] = "query"]
                 ELSE [mgr EXCEPT !.valid[h] = FALSE, !.tpc[t] = "connect"]
    /\ UNCHANGED mgrvars

\* _connect: if self._conn is not None: self._conn.close()
ConnectClose(t) ==
    /\ mgr.tpc[t] = "connect"
    /\ mgr' = [mgr EXCEPT !.dead = @ \cup ({mgr.cur[mgr.got[t]]} \ {0}),
                          !.tpc[t] = "connecting"]
    /\ UNCHANGED mgrvars

\* _connect: self._conn = psycopg2.connect(...); _connection_valid = True; the
\* conn property then returns self._conn to the query.
ConnectOpen(t) ==
    /\ mgr.tpc[t] = "connecting"
    /\ dbUp
    /\ mgr.conns < MaxConns
    /\ LET h == mgr.got[t]
           c == mgr.conns + 1
       IN mgr' = [mgr EXCEPT !.conns = c, !.cur[h] = c, !.valid[h] = TRUE,
                             !.using[t] = c, !.tpc[t] = "query"]
    /\ UNCHANGED mgrvars

\* The statement and its commit are over.
ThreadQuery(t) ==
    /\ mgr.tpc[t] = "query"
    /\ mgr' = [mgr EXCEPT !.using[t] = 0, !.tpc[t] = "done"]
    /\ UNCHANGED mgrvars

\* The request is answered.
ThreadDone(t) ==
    /\ mgr.tpc[t] = "done"
    /\ mgr' = [mgr EXCEPT !.got[t] = 0, !.tpc[t] = "idle"]
    /\ UNCHANGED mgrvars

\* A connection breaks (network reset, server restart).
Break(c) ==
    /\ c \in (1 .. mgr.conns) \ mgr.dead
    /\ mgr' = [mgr EXCEPT !.dead = @ \cup {c}]
    /\ UNCHANGED mgrvars

ThreadStep(t) ==
    \/ GetDbLock(t)
    \/ GetDbProbe(t)
    \/ GetDbClose(t)
    \/ GetDbClear(t)
    \/ \E limited \in BOOLEAN : GetDbAttempt(t, limited)
    \/ TryConnectNew(t)
    \/ ReadQueue(t)
    \/ ThreadEnsure(t)
    \/ ConnectClose(t)
    \/ ConnectOpen(t)
    \/ ThreadQuery(t)
    \/ ThreadDone(t)

NextThreads ==
    \/ \E t \in Threads : ThreadStep(t)
    \/ \E c \in 1 .. MaxConns : Break(c)

SpecThreads == Init /\ [][NextThreads]_vars

\* ================================================== classifying an exception
excvars == <<qvars, envvars, tasks, atDequeue, wvars, conn, hook, webhook_secret, recent,
             session, mgr, periodic, dispatch>>

Messages == UNION {[1 .. n -> Words] : n \in 0 .. MaxWords}

Found(indicator, msg) ==
    \E i \in 1 .. Len(msg) :
        /\ i + Len(indicator) - 1 <= Len(msg)
        /\ SubSeq(msg, i, i + Len(indicator) - 1) = indicator

\* the indicators the three lists share
connection_indicators ==
    {<<"connection">>, <<"server", "closed">>, <<"network">>, <<"timeout">>,
     <<"could", "not", "connect">>, <<"terminating", "connection">>,
     <<"connection", "refused">>, <<"no", "route", "to", "host">>,
     <<"connection", "reset">>, <<"broken", "pipe">>}

session_indicators ==
    connection_indicators \cup {<<"ssl", "connection">>, <<"server", "unexpectedly", "closed">>}

db_indicators == connection_indicators \cup {<<"database">>}

Matches(indicators, e) ==
    \/ e.type \in {"OperationalError", "InterfaceError"}
    \/ \E indicator \in indicators : Found(indicator, e.msg)

\* postgres_connection.is_connection_error
session_is_connection_error(e) == Matches(session_indicators, e)

\* postgres_queue.is_connection_error
queue_is_connection_error(e) == Matches(connection_indicators, e)

\* WorkerDispatcher._is_database_error
_is_database_error(e) == Matches(db_indicators, e)

Classify ==
    /\ ~exc.classified
    /\ exc' = [exc EXCEPT !.classified = TRUE,
                          !.verdict = [session |-> session_is_connection_error(exc),
                                       queue |-> queue_is_connection_error(exc),
                                       dispatcher |-> _is_database_error(exc)]]
    /\ UNCHANGED excvars

NextClassify == Classify

InitClassify ==
    /\ queue_items = <<>>
    /\ rowlocks = [w \in Workers |-> {}]
    /\ dbUp = TRUE
    /\ remote = [e \in ExtIds |-> 0]
    /\ tasks = [e \in ExtIds |-> NoRow]
    /\ atDequeue = [e \in ExtIds |-> 0]
    /\ pc = [w \in Workers |-> "loop"]
    /\ todo = [w \in Workers |-> <<>>]
    /\ pairs = [w \in Workers |-> <<>>]
    /\ conn = "none"
    /\ hook = IdleHook
    /\ webhook_secret = [s \in Sources |-> NoSecret]
    /\ recent = FALSE
    /\ session = IdleSession
    /\ mgr = NewManager
    /\ exc \in {[NoExc EXCEPT !.type = t, !.msg = s] : t \in ExcTypes, s \in Messages}
    /\ periodic = NewPeriodic
    /\ dispatch = NewBatch
    /\ checkpoint = [s \in Sources |-> NoCheckpoint]
    /\ clock = 0
    /\ poll = NoPoll
    /\ running = [w \in Workers |-> TRUE]

SpecClassify == InitClassify /\ [][NextClassify]_vars

\* ====================================================== the periodic backfill
periodicvars == <<qvars, envvars, tasks, atDequeue, wvars, conn, hook, webhook_secret, recent,
                  session, mgr, exc, dispatch>>

BackfillPhases == {"teamwork", "missive"}

\* start_periodic_backfill, called once by app.main before app.run
start_periodic_backfill ==
    /\ periodic.app = "main"
    /\ periodic' = [periodic EXCEPT !.app = "serving", !._backfill_timer = 1,
                                    !.timers[1] = "waiting"]
    /\ UNCHANGED periodicvars

\* threading.Timer.run: the interval has passed and the timer was not
\* cancelled, so it calls _periodic_backfill
TimerFires(i) ==
    /\ periodic.timers[i] = "waiting"
    /\ periodic' = [periodic EXCEPT !.timers[i] = "check"]
    /\ UNCHANGED periodicvars

\* _periodic_backfill: if _backfill_stop_event.is_set(): return
StopCheck(i) ==
    /\ periodic.timers[i] = "check"
    /\ periodic' = [periodic EXCEPT !.timers[i] =
                        IF periodic.stop_event THEN "returned" ELSE "ready"]
    /\ UNCHANGED periodicvars

\* _periodic_backfill: StartupManager().perform_backfill() begins
RunBegins(i) ==
    /\ periodic.timers[i] = "ready"
    /\ periodic' = [periodic EXCEPT !.timers[i] = "teamwork"]
    /\ UNCHANGED periodicvars

\* perform_backfill: _backfill_teamwork, then _backfill_missive
PhaseAfter(phase, last) == IF phase = "teamwork" THEN "missive" ELSE last

RunPhase(i) ==
    /\ periodic.timers[i] \in BackfillPhases
    /\ periodic' = [periodic EXCEPT !.timers[i] = PhaseAfter(periodic.timers[i], "recheck")]
    /\ UNCHANGED periodicvars

\* _periodic_backfill: if not _backfill_stop_event.is_set():
Recheck(i) ==
    /\ periodic.timers[i] = "recheck"
    /\ periodic' = [periodic EXCEPT !.timers[i] =
                        IF periodic.stop_event THEN "returned" ELSE "resched"]
    /\ UNCHANGED periodicvars

\* _periodic_backfill: _backfill_timer = threading.Timer(...); _backfill_timer.start()
Reschedule(i) ==
    /\ periodic.timers[i] = "resched"
    /\ \E j \in Timers :
          /\ periodic.timers[j] = "unused"
          /\ \A k \in Timers : periodic.timers[k] = "unused" => j <= k
          /\ periodic' = [periodic EXCEPT !.timers[i] = "returned", !.timers[j] = "waiting",
                                          !._backfill_timer = j]
    /\ UNCHANGED periodicvars

\* stop_periodic_backfill: _backfill_stop_event.set()
StopSet ==
    /\ periodic.app = "serving"
    /\ periodic' = [periodic EXCEPT !.app = "stopping", !.stop_event = TRUE]
    /\ UNCHANGED periodicvars

\* stop_periodic_backfill: _backfill_timer.cancel(), which stops a timer that
\* is still waiting and does nothing to one that has fired
StopCancel ==
    /\ periodic.app = "stopping"
    /\ LET t == periodic._backfill_timer
       IN periodic' = [periodic EXCEPT !.app = "stopped",
                          !.timers = IF t # NoTimer /\ periodic.timers[t] = "waiting"
                                     THEN [periodic.timers EXCEPT ![t] = "cancelled"]
                                     ELSE periodic.timers]
    /\ UNCHANGED periodicvars

\* startup.main, a process of its own: manager.perform_backfill()
StartupBackfill ==
    /\ periodic.startup \in {"main"} \cup BackfillPhases
    /\ periodic' = [periodic EXCEPT !.startup =
                        IF periodic.startup = "main" THEN "teamwork"
                        ELSE PhaseAfter(periodic.startup, "done")]
    /\ UNCHANGED periodicvars

TimerStep(i) ==
    \/ TimerFires(i)
    \/ StopCheck(i)
    \/ RunBegins(i)
    \/ RunPhase(i)
    \/ Recheck(i)
    \/ Reschedule(i)

NextPeriodic ==
    \/ start_periodic_backfill
    \/ \E i \in Timers : TimerStep(i)
    \/ StopSet
    \/ StopCancel
    \/ StartupBackfill

SpecPeriodic == Init /\ [][NextPeriodic]_vars

\* ================================================== one pass of _process_batch
batchvars == <<qvars, envvars, tasks, atDequeue, wvars, conn, hook, webhook_secret, recent,
               session, mgr, exc, periodic>>

\* items of a source that the loop over them has not reached yet
Rest(src) == {i \in dispatch.at + 1 .. Len(dispatch.items) : dispatch.items[i].source = src}
First(S) == CHOOSE i \in S : \A j \in S : i <= j

Completed(b, i) == [b EXCEPT !.completed[i] = Min(@ + 1, 2)]
Failed(b, i) == [b EXCEPT !.failed[i] = Min(@ + 1, 2)]
RECURSIVE CompleteAll(_, _)
CompleteAll(b, ps) ==
    IF ps = <<>> THEN b ELSE CompleteAll(Completed(b, Head(ps).item), Tail(ps))

\* link_task_tags: DELETE the task's links, INSERT one per tag id
link_task_tags(links, tag_ids) == tag_ids

\* the dispatcher calls link_task_tags only if tag_ids is not empty
link_if_any(links, tag_ids) ==
    IF tag_ids # {} THEN link_task_tags(links, tag_ids) ELSE links

\* upsert_tasks_batch of the task, then the links
upsert_and_link(b, tag_ids) ==
    [b EXCEPT !.local = [stored |-> TRUE, deleted |-> FALSE,
                         tags |-> link_if_any(b.local.tags, tag_ids)]]

\* mark_task_deleted: UPDATE ... SET deleted_at = NOW() WHERE id = task_id
mark_task_deleted(b) == [b EXCEPT !.local.deleted = b.local.stored]

\* TeamworkEventHandler.process_event for a deletion event
process_deletion(b, i) == [mark_task_deleted(b) EXCEPT !.at = i]

\* items = self.queue.dequeue_batch(max_items=10)
DequeueBatch ==
    /\ dispatch.phase \in {"idle", "done"}
    /\ \E n \in BatchSlots : \E its \in [1 .. n -> ItemKinds] :
          dispatch' = [NewBatch EXCEPT !.items = its, !.phase = "teamwork",
                                    !.remote = dispatch.remote, !.local = dispatch.local]
    /\ UNCHANGED batchvars

\* for item in teamwork_items: process_event, which raises, handles a deletion
\* event, finds no task behind the id, or returns the task
HandleTeamwork ==
    /\ dispatch.phase = "teamwork"
    /\ Rest("teamwork") # {}
    /\ LET i == First(Rest("teamwork"))
           none == [item |-> i, some |-> FALSE]
       IN \/ dispatch' = Failed([dispatch EXCEPT !.at = i], i)
          \/ /\ dispatch.items[i].event = "task.deleted"
             /\ dispatch' = [process_deletion(dispatch, i) EXCEPT !.pairs = Append(@, none)]
          \/ /\ dispatch.items[i].event # "task.deleted"
             /\ dispatch' = [dispatch EXCEPT !.at = i,
                             !.pairs = Append(@, [item |-> i, some |-> dispatch.remote.exists])]
    /\ UNCHANGED batchvars

\* after the loop: the batch upsert, the links and the acks, or the fallback
UpsertTeamwork ==
    /\ dispatch.phase = "teamwork"
    /\ Rest("teamwork") = {}
    /\ LET next == [dispatch EXCEPT !.phase = "missive", !.at = 0, !.pairs = <<>>]
       IN IF \E k \in 1 .. Len(dispatch.pairs) : dispatch.pairs[k].some
          THEN \/ dispatch' = CompleteAll(upsert_and_link(next, dispatch.remote.tags), dispatch.pairs)
               \/ dispatch' = [dispatch EXCEPT !.phase = "tw_individual", !.at = 0]
          ELSE dispatch' = CompleteAll(next, dispatch.pairs)
    /\ UNCHANGED batchvars

AfterIndividual(b, k, then) ==
    IF k = Len(dispatch.pairs) THEN [b EXCEPT !.phase = then, !.at = 0, !.pairs = <<>>]
    ELSE [b EXCEPT !.at = k]

\* _process_teamwork_items_individually, one pair
IndividualTeamwork ==
    /\ dispatch.phase = "tw_individual"
    /\ LET k == dispatch.at + 1
           i == dispatch.pairs[k].item
       IN IF dispatch.pairs[k].some
          THEN \/ dispatch' = AfterIndividual(Completed(upsert_and_link(dispatch, dispatch.remote.tags), i),
                                           k, "missive")
               \/ dispatch' = AfterIndividual(Failed(dispatch, i), k, "missive")
          ELSE dispatch' = AfterIndividual(Completed(dispatch, i), k, "missive")
    /\ UNCHANGED batchvars

\* for item in missive_items: process_event raises or returns emails or none
HandleMissive ==
    /\ dispatch.phase = "missive"
    /\ Rest("missive") # {}
    /\ LET i == First(Rest("missive"))
       IN \/ dispatch' = Failed([dispatch EXCEPT !.at = i], i)
          \/ \E some \in BOOLEAN :
                dispatch' = [dispatch EXCEPT !.at = i, !.pairs = Append(@, [item |-> i, some |-> some])]
    /\ UNCHANGED batchvars

UpsertMissive ==
    /\ dispatch.phase = "missive"
    /\ Rest("missive") = {}
    /\ LET next == [dispatch EXCEPT !.phase = "craft", !.at = 0, !.pairs = <<>>]
       IN IF \E k \in 1 .. Len(dispatch.pairs) : dispatch.pairs[k].some
          THEN \/ dispatch' = CompleteAll(next, dispatch.pairs)
               \/ dispatch' = [dispatch EXCEPT !.phase = "ms_individual", !.at = 0]
          ELSE dispatch' = CompleteAll(next, dispatch.pairs)
    /\ UNCHANGED batchvars

\* _process_missive_items_individually, one pair
IndividualMissive ==
    /\ dispatch.phase = "ms_individual"
    /\ LET k == dispatch.at + 1
           i == dispatch.pairs[k].item
       IN IF dispatch.pairs[k].some
          THEN \/ dispatch' = AfterIndividual(Completed(dispatch, i), k, "craft")
               \/ dispatch' = AfterIndividual(Failed(dispatch, i), k, "craft")
          ELSE dispatch' = AfterIndividual(Completed(dispatch, i), k, "craft")
    /\ UNCHANGED batchvars

\* for item in craft_items: process_event, then mark_item_completed, or
\* mark_item_failed when it raised
HandleCraft ==
    /\ dispatch.phase = "craft"
    /\ Rest("craft") # {}
    /\ LET i == First(Rest("craft"))
       IN \/ dispatch' = Completed([dispatch EXCEPT !.at = i], i)
          \/ dispatch' = Failed([dispatch EXCEPT !.at = i], i)
    /\ UNCHANGED batchvars

\* _process_batch returns; run logs the batch and loops
EndBatch ==
    /\ dispatch.phase = "craft"
    /\ Rest("craft") = {}
    /\ dispatch' = [dispatch EXCEPT !.phase = "done"]
    /\ UNCHANGED batchvars

\* between two passes the task is edited or deleted in the tracker
RemoteEdit ==
    /\ dispatch.phase \in {"idle", "done"}
    /\ \E r \in [exists : BOOLEAN, tags : SUBSET TagIds] :
          /\ r # dispatch.remote
          /\ ~r.exists => r.tags = {}
          /\ dispatch' = [dispatch EXCEPT !.remote = r]
    /\ UNCHANGED batchvars

NextBatch ==
    \/ DequeueBatch
    \/ HandleTeamwork
    \/ UpsertTeamwork
    \/ IndividualTeamwork
    \/ HandleMissive
    \/ UpsertMissive
    \/ IndividualMissive
    \/ HandleCraft
    \/ EndBatch
    \/ RemoteEdit

SpecBatch == Init /\ [][NextBatch]_vars

\* ============================================ backfill with failing enqueues
\* self.queue.enqueue(item) for each record: the records whose enqueue returns
\* False, or raises into the except of the loop, leave no row.
RECURSIVE enqueue_ok(_, _, _, _, _)
enqueue_ok(q, src, ids, ok, i) ==
    IF i > Len(ids) THEN q
    ELSE enqueue_ok(IF ok[i] THEN enqueue(q, src, ids[i]) ELSE q, src, ids, ok, i + 1)

EnqueueResults == [1 .. MaxPages * PageSize -> BOOLEAN]

\* _backfill_teamwork where enqueue fails for some of the tasks
backfill_teamwork_enqueue(responses, ok) ==
    LET tasks_ == get_tasks_with_filter(responses, 1)
    IN  /\ \A i \in 1 .. Len(tasks_) : tasks_[i].updatedAt >= Since("teamwork")
        /\ \A i \in Len(tasks_) + 1 .. MaxPages * PageSize : ok[i]
        /\ Len(queue_items) + Len(tasks_) <= MaxItems
        /\ queue_items' = enqueue_ok(queue_items, "teamwork",
               [i \in 1 .. Len(tasks_) |-> tasks_[i].id], ok, 1)
        /\ checkpoint' = set_checkpoint(checkpoint, "teamwork",
               latest_time(clock, [i \in 1 .. Len(tasks_) |-> tasks_[i].updatedAt]))
        /\ poll' = [source |-> "teamwork", failed |-> PageFailed(responses, 1), fetched |-> Len(tasks_)]
        /\ UNCHANGED <<rowlocks, dbUp, remote, clock, running, tasks, atDequeue, wvars, hookvars>>

NextBackfillEnqueue ==
    \/ \E rs \in SeqsUpTo(Responses(TaskRecords), MaxPages) : \E ok \in EnqueueResults :
          backfill_teamwork_enqueue(rs, ok)
    \/ ClockTick

SpecBackfillEnqueue == Init /\ [][NextBackfillEnqueue]_vars

\* ================================================================== claims
Terminal == {"completed", "dead_letter"}

\* Items a worker has been handed and has not yet acked or failed.
Held(w) == SeqIds(todo[w]) \cup PairIds(pairs[w])

\* Status of row i, "absent" before the row is inserted.
StatusOf(i) == IF i \in Ids(queue_items) THEN queue_items[i].status ELSE "absent"

\* C1: at-least-once delivery. With the workers running and time passing,
\* every enqueued item eventually ends completed or dead_letter.
C1_EventuallyTerminal ==
    \A i \in 1..MaxItems :
        [](StatusOf(i) # "absent" => <>(StatusOf(i) \in Terminal))

\* C2: the status of a row changes only along pending -> processing,
\* processing -> completed, processing -> pending, processing -> dead_letter;
\* completed and dead_letter rows never change status again.
StatusEdges ==
    {<<"pending", "processing">>, <<"processing", "completed">>,
     <<"processing", "pending">>, <<"processing", "dead_letter">>}

C2_StatusEdges ==
    [][\A i \in Ids(queue_items) :
          \/ queue_items'[i].status = queue_items[i].status
          \/ <<queue_items[i].status, queue_items'[i].status>> \in StatusEdges]_vars

C5_StuckRecovered ==
    \A i \in 1..MaxItems :
        [](i \in Stuck(queue_items, stuck_threshold_minutes)
              => <>(StatusOf(i) # "processing"))

\* C7: a record whose normalizer always raises is failed with retry at every
\* attempt: its row is pending or processing with fewer than max_attempts
\* failures, it is dead_letter with last_error set from the failure that makes
\* the count max_attempts, it is never completed, and once dead_letter it stays
\* so and is never handed out again.
Poisoned(q, i) == q[i].external_id \in NormalizerPoison

C8_CompletedIsPersisted ==
    \A i \in Ids(queue_items) :
        queue_items[i].status = "completed" => tasks[queue_items[i].external_id] # NoRow

\* C9: once every item of a record is completed, the stored row is never an
\* older state than the remote state at the final dequeue.
AllCompleted(e) ==
    /\ \E i \in Ids(queue_items) : queue_items[i].external_id = e
    /\ \A i \in Ids(queue_items) :
          queue_items[i].external_id = e => queue_items[i].status = "completed"

C9_NeverOlderState ==
    \A e \in ExtIds :
        (AllCompleted(e) /\ tasks[e] # NoRow) => tasks[e] >= atDequeue[e]

C10_AcceptedIffEnqueued ==
    (hook.pc = "done" /\ hook.kind = "webhook") =>
        IF hook.status = 200
        THEN /\ Len(queue_items) = hook.before + 1
             /\ queue_items[Len(queue_items)] = NewRow(hook.source, hook.ext)
        ELSE Len(queue_items) = hook.before

\* The request in progress, or just answered, is a webhook delivery.
Webhook == hook.kind = "webhook"

\* The signature the request carries is missing, or is not the HMAC-SHA256 of
\* its raw body under the secret of its source.
BadSignature ==
    \/ hook.sig = NoSig
    \/ hook.sig # Hmac(webhook_secret[hook.source], hook.body)

\* C11: with a secret configured for the source, a delivery whose signature is
\* missing or is not the digest of the raw body is answered 401 at once and
\* enqueues nothing, whatever the body and the database state; with no secret
\* configured no delivery is answered 401.
C11_BadSignatureIs401 ==
    Webhook =>
        IF webhook_secret[hook.source] = NoSecret
        THEN hook.status # 401
        ELSE BadSignature =>
                 /\ hook.pc = "done"
                 /\ hook.status = 401
                 /\ Len(queue_items) = hook.before

\* A delivery signed for another body is refused while the database is down.
C11_Witness ==
    /\ Webhook
    /\ hook.pc = "done"
    /\ hook.status = 401
    /\ hook.sig # NoSig
    /\ ~dbUp

\* The delivery passes the signature check of its source.
PassesSignature == webhook_secret[hook.source] = NoSecret \/ ~BadSignature

\* The body of the delivery carries an external id in one of the fields of
\* its source's priority list.
HasExternalId ==
    IF hook.source = "teamwork"
    THEN extract_teamwork_id(form_to_dict(hook.body)) # ""
    ELSE extract_missive_id(get_json(hook.body)) # ""

\* C12: a delivery that passes the signature check but has an empty body, or a
\* body with no extractable external id, is answered 400 and enqueues
\* nothing, on the task endpoint and on the mail endpoint, whether or not the
\* database is available.
C12_UnparsableIs400 ==
    (Webhook /\ hook.pc = "done" /\ PassesSignature /\ (hook.body = "" \/ ~HasExternalId)) =>
        /\ hook.status = 400
        /\ Len(queue_items) = hook.before

\* The delivery is one the handler should enqueue.
ValidDelivery == Webhook /\ PassesSignature /\ hook.body # "" /\ HasExternalId

\* C13: a valid delivery handled while the database is unavailable, or whose
\* enqueue reports failure, is answered 503 and enqueues no row; it is never
\* answered 200 and the handler is never left without a step it can take.
C13_UnavailableIs503 ==
    /\ hook.pc # "idle" => ENABLED HandlerStep
    /\ (ValidDelivery /\ hook.pc = "done" /\ hook.down) =>
           (hook.status = 503 /\ Len(queue_items) = hook.before)
    /\ (ValidDelivery /\ hook.pc = "done" /\ hook.status = 503) =>
           Len(queue_items) = hook.before

\* C14: once the database is available again, a valid delivery is answered
\* 200 and GET /health reports healthy, however soon after the outage and
\* after the last connection attempt: a request during which the database is
\* up and its connection is not broken is served.
C14_RecoveredServes ==
    (hook.pc = "done" /\ hook.up) =>
        IF Webhook THEN ValidDelivery => hook.status = 200
        ELSE hook.avail

\* The request in progress, or just answered, is a GET /health.
Health == hook.kind = "health"

\* C15: GET /health is answered 200; it reports degraded exactly when
\* database_available is false; when database_available is false or the health
\* query failed, queue_pending is 0 and queue_details is empty, and otherwise
\* queue_pending is the number of pending rows over all sources.
C15_HealthReport ==
    (Health /\ hook.pc = "done") =>
        /\ hook.status = 200
        /\ IF ~hook.avail \/ hook.failed
           THEN hook.pending = 0 /\ hook.details = {}
           ELSE hook.pending = PendingCount(queue_items)

\* C16: the checkpoint of a source never moves backwards across polls whose
\* requests all succeeded, for every sequence of polls, clock readings and
\* record timestamps.
C16_CheckpointMonotone ==
    [][~poll'.failed => \A s \in Sources : checkpoint'[s] >= checkpoint[s]]_vars

\* C17: a poll in which a page request failed leaves the checkpoint
\* unchanged; the checkpoint is written only by polls whose requests all
\* succeeded.
C17_FailedPollKeepsCheckpoint ==
    [][poll'.failed => checkpoint' = checkpoint]_vars

\* C18: after a shutdown signal has set running to false the worker is never
\* left without a step it can take before it has exited, also while the
\* database is unavailable.
C18_ShutdownTerminates ==
    \A w \in Workers : (~running[w] /\ pc[w] # "exited") => ENABLED LifeStep(w)

\* Worker w has just run dequeue_batch.
Dequeued(w) == pc[w] \in {"sleep", "normalize"}

C20_DequeueContract ==
    [][\A w \in Workers :
          /\ \A m \in BatchSizes, src \in SourceArgs :
                QSelect(w, m, src) =>
                    /\ Cardinality(rowlocks'[w]) <= m
                    /\ \A i \in rowlocks'[w] :
                          /\ queue_items[i].status = "pending"
                          /\ queue_items[i].due <= 0
                          /\ (src = AnySource \/ queue_items[i].source = src)
          /\ (pc[w] = "claim" /\ pc'[w] = "loop") =>
                \A i \in Ids(queue_items) :
                    IF i \in rowlocks[w]
                    THEN /\ i \in SeqIds(todo'[w])
                         /\ queue_items'[i].status = "processing"
                         /\ queue_items'[i].claimed_by = w
                    ELSE queue_items'[i] = queue_items[i]]_vars

C22_SweepKeepsRetryCount ==
    [][\A i \in Ids(queue_items) :
          /\ Sweep =>
                /\ queue_items'[i].retry_count = queue_items[i].retry_count
                /\ queue_items'[i].last_error = queue_items[i].last_error
                /\ i \in Stuck(queue_items, stuck_threshold_minutes) =>
                       queue_items'[i].status = "pending"
          /\ queue_items'[i].retry_count # queue_items[i].retry_count =>
                /\ queue_items'[i].retry_count = queue_items[i].retry_count + 1
                /\ \E w \in Workers, retry \in BOOLEAN : QMarkFailed(w, i, retry)]_vars

\* An item failed once, claimed again, swept, and now claimed by the other
\* worker, still with retry_count 1.
C22_Witness ==
    \E i \in Ids(queue_items) : \E w1, w2 \in Workers :
        /\ w1 # w2
        /\ i \in SeqIds(todo[w1])
        /\ queue_items[i].status = "processing"
        /\ queue_items[i].claimed_by = w2
        /\ queue_items[i].retry_count = 1
        /\ queue_items[i].last_error = "error"

C25_PoisonIsolated ==
    [][\A w \in Workers :
          /\ UpsertBatchRaises(w) => pc'[w] = "individual" /\ pairs'[w] = pairs[w]
          /\ pc[w] = "individual" => pairs[w] # <<>> /\ ENABLED Individual(w)
          /\ Individual(w) =>
                LET p == Head(pairs[w])
                    old == queue_items[p.id]
                    new == queue_items'[p.id]
                IN /\ (p.task # NoTask /\ p.ext \notin UpsertPoison) =>
                          /\ new.status = "completed"
                          /\ tasks'[p.ext] = p.task
                   /\ (p.task # NoTask /\ p.ext \in UpsertPoison) =>
                          /\ new.retry_count = old.retry_count + 1
                          /\ new.last_error = "upsert"
                          /\ new.status = IF new.retry_count < MAX_QUEUE_ATTEMPTS
                                          THEN "pending" ELSE "dead_letter"
                          /\ tasks' = tasks
                   /\ \A j \in Ids(queue_items) \ {p.id} : queue_items'[j] = queue_items[j]
                   /\ pairs'[w] = Tail(pairs[w])
                   /\ pc'[w] = IF Tail(pairs[w]) = <<>> THEN "loop" ELSE "individual"]_vars

\* In the pass over a failed batch the item of the record that cannot be stored
\* has been marked failed and the good item of the same batch is next.
C25_Witness ==
    \E w \in Workers : \E i \in Ids(queue_items) :
        /\ pc[w] = "individual"
        /\ Len(pairs[w]) = 1
        /\ Head(pairs[w]).task # NoTask
        /\ Head(pairs[w]).ext \notin UpsertPoison
        /\ Head(pairs[w]).id # i
        /\ queue_items[i].external_id \in UpsertPoison
        /\ queue_items[i].last_error = "upsert"

\* C26: a connection error during an upsert leaves every queue item as it is:
\* the dispatcher marks nothing completed and nothing failed, so no
\* retry_count changes and no item becomes dead_letter by it.
C26_ConnectionErrorKeepsBudget ==
    [][\A w \in Workers :
          (UpsertBatchConnectionError(w) \/ IndividualConnectionError(w)) =>
              queue_items' = queue_items]_vars

\* C27: after a poll whose requests all succeeded, with previous checkpoint T,
\* the new checkpoint of the source is max(T, latest updated_at among the
\* returned records, now()).
C27_CheckpointIsMax ==
    [][/\ \A rs \in SeqsUpTo(Responses(TaskRecords), MaxPages) :
             (backfill_teamwork(rs) /\ ~PageFailed(rs, 1)) =>
                 LET tasks_ == get_tasks_with_filter(rs, 1)
                 IN checkpoint'["teamwork"] =
                        Max(checkpoint["teamwork"],
                            latest_time(clock, [i \in 1 .. Len(tasks_) |-> tasks_[i].updatedAt]))
       /\ \A rs \in SeqsUpTo(Responses(Conversations), MaxPages) :
             (backfill_missive(rs) /\ ~PageFailed(rs, 1)) =>
                 LET conversations == get_conversations_updated_since(rs, 1, Since("missive"))
                 IN checkpoint'["missive"] =
                        Max(checkpoint["missive"],
                            latest_time(clock, [i \in 1 .. Len(conversations) |->
                                                   conversations[i].updated_at]))]_vars

\* C28: a retry wrapper runs the operation at most DB_OPERATION_RETRIES + 1
\* times; it runs it again only after a connection error, after a rollback and
\* with the session marked invalid; an error that is not a connection error
\* is rolled back and raised; and after the last connection failure the error
\* is raised to the caller.
C28_SessionRetry ==
    session.fn \in Wrappers =>
        /\ session.runs <= DB_OPERATION_RETRIES + 1
        /\ (session.pc \in {"ensure", "connect", "op"} /\ session.runs > 0) =>
               session.last = "connection" /\ session.rolled
        /\ (session.pc = "ensure" /\ session.ret = "op" /\ session.runs > 0) => ~session.valid
        /\ (session.pc = "done" /\ session.last = "data") =>
               session.rolled /\ session.result = "raised"
        /\ (session.pc = "done" /\ session.last = "connection") =>
               session.runs = DB_OPERATION_RETRIES + 1 /\ session.result = "raised"

\* C29: the k-th wait of the reconnect loop, and the k-th wait between the
\* attempts of a retry wrapper, is min(initial * 2^k, cap); no wait exceeds
\* the cap.
C29_BackoffBounds ==
    [][/\ (SessionConnect /\ ~dbUp) =>
              session'.wait = Min(DB_RECONNECT_DELAY * Pow2(session.fails),
                                  DB_MAX_RECONNECT_DELAY)
       /\ session'.attempt = session.attempt + 1 =>
              session'.wait = Min(DB_RECONNECT_DELAY * Pow2(session.attempt),
                                  DB_MAX_RECONNECT_DELAY)
       /\ session'.wait <= DB_MAX_RECONNECT_DELAY]_vars

\* The reconnect loop has failed often enough to wait the cap.
C29_Witness ==
    /\ session.pc = "connect"
    /\ session.fails = MaxConnectFails
    /\ session.wait = DB_MAX_RECONNECT_DELAY
    /\ session.cdelay = DB_MAX_RECONNECT_DELAY

InEnsure == session.pc \in {"ensure", "connect"}

Reconnecting == {t \in Threads : mgr.tpc[t] \in {"try_connect", "connect", "connecting"}}

\* C31: at most one thread is reconnecting at any moment, and no thread closes
\* a connection that another thread is using for a query.
C31_ReconnectSerialized ==
    [][/\ Cardinality(Reconnecting') <= 1
       /\ \A t \in Threads :
             (mgr.tpc[t] = "query" /\ mgr.using[t] \notin mgr.dead) =>
                 mgr.using[t] \notin mgr'.dead \/ (\E c \in 1 .. MaxConns : Break(c))]_vars

\* C38: whenever the manager's lock is free, _db is None exactly when _queue
\* is None; and the queue that get_queue returns is bound to the handle that
\* is _db at that moment, not to one whose connection a get_db has closed.
C38_ManagerConsistent ==
    [][/\ mgr'.lock = NoThread => (mgr'.db = 0 <=> mgr'.queue = 0)
       /\ \A t \in Threads :
             (ReadQueue(t) /\ mgr.queue # 0) =>
                 /\ mgr'.got[t] = mgr.db
                 /\ mgr.cur[mgr.queue] # 0]_vars

\* C32: for every exception, by driver error type and message, the session's
\* is_connection_error, the queue's is_connection_error and the dispatcher's
\* _is_database_error give the same verdict.
C32_SameVerdict ==
    exc.classified =>
        /\ exc.verdict.session = exc.verdict.queue
        /\ exc.verdict.queue = exc.verdict.dispatcher

\* the backfill runs that are in a phase: the one-shot of startup.main and the
\* runs of the timers
RunsIn(phase) ==
    {i \in Timers : periodic.timers[i] = phase} \cup
        (IF periodic.startup = phase THEN {NoTimer} ELSE {})

\* C33: at any moment at most one backfill run, the startup one-shot or a run
\* of the periodic timer, is executing for a source.
C33_NoOverlap == \A phase \in BackfillPhases : Cardinality(RunsIn(phase)) <= 1

\* C33, the part that holds: the runs of the periodic timer never overlap
\* each other.
C33_TimerRunsSerial ==
    Cardinality({i \in Timers : periodic.timers[i] \in {"ready", "recheck", "resched"} \cup BackfillPhases}) <= 1

\* C40: once stop_periodic_backfill has returned, no backfill run begins any more.
C40_StopIsFinal ==
    [][periodic.app = "stopped" => \A i \in Timers : ~RunBegins(i)]_vars

\* C40, the part that holds: once stop_periodic_backfill has returned, no timer
\* passes the check of the stop event, and a run in progress is not interrupted.
C40_NoCheckPassesAfterStop ==
    [][periodic.app = "stopped" =>
          \A i \in Timers : ~(periodic.timers[i] = "check" /\ periodic'.timers[i] = "ready")]_vars

\* the teamwork items of the pass whose handler returned without raising
Returned(i) == dispatch.items[i].source = "teamwork" /\ dispatch.failed[i] = 0

\* C34: when the API reports that the task of a dequeued item does not exist,
\* or the item is a deletion event, the local record is marked deleted, nothing
\* is upserted and the item is acked.
C34_NotFoundMarksDeleted ==
    [][(EndBatch /\ ~dispatch.remote.exists) =>
          \A i \in 1 .. Len(dispatch.items) :
              Returned(i) =>
                  /\ dispatch.completed[i] = 1
                  /\ dispatch.local.stored => dispatch.local.deleted]_vars

\* C34, the part that holds: a deletion event marks the stored record deleted
\* and the item is acked.
C34_DeletionEventMarksDeleted ==
    [][(EndBatch /\ ~dispatch.remote.exists) =>
          \A i \in 1 .. Len(dispatch.items) :
              (Returned(i) /\ dispatch.items[i].event = "task.deleted") =>
                  /\ dispatch.completed[i] = 1
                  /\ dispatch.local.stored => dispatch.local.deleted]_vars

\* C35: after a task item is processed, the task's tag links equal exactly the
\* tag ids of the current remote task, the empty set included.
C35_LinksExact ==
    [][(EndBatch /\ dispatch.remote.exists) =>
          \A i \in 1 .. Len(dispatch.items) :
              (Returned(i) /\ dispatch.items[i].event = "task.updated" /\ dispatch.completed[i] = 1) =>
                  dispatch.local.tags = dispatch.remote.tags]_vars

\* C35, the part that holds: processing a task that has tags leaves exactly
\* its tags linked, so that processing it again changes no link.
C35_LinksExactIfAny ==
    [][(EndBatch /\ dispatch.remote.exists /\ dispatch.remote.tags # {}) =>
          \A i \in 1 .. Len(dispatch.items) :
              (Returned(i) /\ dispatch.items[i].event = "task.updated" /\ dispatch.completed[i] = 1) =>
                  dispatch.local.tags = dispatch.remote.tags]_vars

\* C36: when the pass over a batch ends, every item of it has been marked
\* completed or marked failed, exactly once, whatever its source.
C36_OneDisposition ==
    [][EndBatch => \A i \in 1 .. Len(dispatch.items) :
                       dispatch.completed[i] + dispatch.failed[i] = 1]_vars

\* C36, the part that holds: the items of the three known sources get exactly
\* one disposition, and no item gets two.
C36_KnownSourcesOneDisposition ==
    [][EndBatch => \A i \in 1 .. Len(dispatch.items) :
                       /\ dispatch.completed[i] + dispatch.failed[i] <= 1
                       /\ dispatch.items[i].source \in {"teamwork", "missive", "craft"} =>
                              dispatch.completed[i] + dispatch.failed[i] = 1]_vars

\* the start of the window of the poll that follows
SinceNext(src) == Max(0, checkpoint'[src] - OverlapTicks)

\* C37: a record whose enqueue failed in a poll is still covered by the window
\* of the next poll.
C37_FailedEnqueueCovered ==
    [][\A rs \in SeqsUpTo(Responses(TaskRecords), MaxPages) : \A ok \in EnqueueResults :
          backfill_teamwork_enqueue(rs, ok) =>
              LET tasks_ == get_tasks_with_filter(rs, 1)
              IN \A i \in 1 .. Len(tasks_) : ~ok[i] => tasks_[i].updatedAt >= SinceNext("teamwork")]_vars

\* C39: enqueue never raises: it returns True or its failure value False, after
\* at most DB_OPERATION_RETRIES + 1 attempts, and it returns True only if its
\* INSERT was committed.
C39_EnqueueTrueOnlyIfCommitted ==
    [][/\ hook'.attempt <= DB_OPERATION_RETRIES
       /\ (hook.pc \in {"execute", "commit"} /\ hook'.pc = "done") => hook'.status \in {200, 503}
       /\ HookCommit => queue_items' = enqueue(queue_items, hook.source, hook.ext)]_vars

\* C39, the part that holds: enqueue returns True or False and never makes
\* more than DB_OPERATION_RETRIES + 1 attempts.
C39_EnqueueReturnsWithinAttempts ==
    [][/\ hook'.attempt <= DB_OPERATION_RETRIES
       /\ (hook.pc \in {"execute", "commit"} /\ hook'.pc = "done") => hook'.status \in {200, 503}]_vars

====
